---- MODULE Spec2Model ----
(***************************************************************************)
(* A model of the Stile scanning engine (packages/core/src/index.ts):      *)
(* the plugin registry, file selection, the per-file plugin pipeline and   *)
(* the report assembly with its adherence score, together with the built-in*)
(* plugins of packages/plugins/src/index.ts that the engine drives.        *)
(*                                                                         *)
(* Strings that the engine matches against patterns (paths, the root       *)
(* directory) are sequences of one-character strings; the empty sequence   *)
(* and the empty string are JavaScript's falsy "omitted" values.           *)
(***************************************************************************)
EXTENDS Integers, Sequences, FiniteSets, TLC

VARIABLES
    pluginRegistry,   \* StileEngine.pluginRegistry: plugin name -> definition
    config,           \* the StileConfig handed to scan (in the CLI, first the raw export)
    lastIndex,        \* lastIndex of each rule's RegExp object (rule index -> Nat)
    pc,               \* where the running scan call stands
    files,            \* scan: the selected file list
    fileIdx,          \* scan: position of the for-of loop over files
    findings,         \* scan: the report-level findings array
    components,       \* scan: the report-level components array
    filesScanned,     \* scan: the counter
    ctxFindings,      \* scanFile: context.findings of the file being scanned
    ctxComponents,    \* scanFile: context.components of the file being scanned
    ruleIdx,          \* scanFile: position of the loop over config.rules
    refIdx,           \* scanFile: position of the loop over rule.plugins
    findingStart,     \* scanFile: findings.length before the invocation
    componentStart,   \* scanFile: components.length before the invocation
    reports,          \* the reports returned so far, oldest first
    log,              \* what the running (or last) scan did, in order
    loader            \* StileLoader: its config and the loadFindings call under way

vars == <<pluginRegistry, config, lastIndex, pc, files, fileIdx, findings, components,
          filesScanned, ctxFindings, ctxComponents, ruleIdx, refIdx, findingStart,
          componentStart, reports, log, loader>>

-----------------------------------------------------------------------------
(* Bounds of the model.                                                    *)

MaxRules == 2            \* rules in a configuration
MaxFiles == 4            \* files in the tree under rootDir
MaxScans == 2            \* scan calls on one engine
ScoreMaxFiles == 40      \* filesScanned values tried on the scoring path
ScoreMaxViolations == 42 \* violation counts tried on the scoring path
MaxFindings == 3         \* findings handed to the loader's loadFindings
MaxBatchSize == 3        \* largest batchSize configured for the loader

-----------------------------------------------------------------------------
(* IEEE-754 double arithmetic, as far as calculateAdherenceScore uses it:  *)
(* one division of two small integers, one multiplication by 100, and      *)
(* Math.round. A positive double is [e, m]: m holds the 53 significand     *)
(* bits, most significant first, m[1] = 1, and the value is 1.m[2..] * 2^e.*)

MantissaBits == 53
LimbBits == 14

RECURSIVE Pow2(_)
Pow2(k) ==
    IF k = 0 THEN 1
    ELSE IF k % 2 = 1 THEN 2 * Pow2(k - 1)
    ELSE LET h == Pow2(k \div 2) IN h * h

RECURSIVE Pow2Mod(_, _)
Pow2Mod(k, d) ==
    IF k = 0 THEN 1 % d
    ELSE IF k % 2 = 1 THEN (2 * Pow2Mod(k - 1, d)) % d
    ELSE LET h == Pow2Mod(k \div 2, d) IN (h * h) % d

Abs(x) == IF x < 0 THEN -x ELSE x

RECURSIVE FloorLog2(_, _)
FloorLog2(n, d) == IF n >= 2 * d THEN 1 + FloorLog2(n, 2 * d) ELSE 0

RECURSIVE CeilLog2(_, _)
CeilLog2(n, d) == IF n < d THEN 1 + CeilLog2(2 * n, d) ELSE 0

RECURSIVE BitLength(_)
BitLength(x) == IF x = 0 THEN 0 ELSE 1 + BitLength(x \div 2)

RECURSIVE BitsValue(_, _, _)
BitsValue(bits, lo, hi) ==
    IF lo > hi THEN 0
    ELSE IF lo = hi THEN bits[lo]
    ELSE LET mid == (lo + hi) \div 2
         IN  BitsValue(bits, lo, mid) * Pow2(hi - mid) + BitsValue(bits, mid + 1, hi)

FloatZero == [zero |-> TRUE, e |-> 0, m |-> <<>>]

\* Round to nearest, ties to even: the rounding of every double operation.
RoundToNearestEven(e, bits, guard, sticky) ==
    LET n    == Len(bits)
        up   == guard = 1 /\ (sticky \/ bits[n] = 1)
        ones == \A i \in 1..n : bits[i] = 1
        last == CHOOSE j \in 1..n : bits[j] = 0 /\ \A i \in (j + 1)..n : bits[i] = 1
    IN  IF ~up THEN [zero |-> FALSE, e |-> e, m |-> bits]
        ELSE IF ones
             THEN [zero |-> FALSE, e |-> e + 1, m |-> [i \in 1..n |-> IF i = 1 THEN 1 ELSE 0]]
             ELSE [zero |-> FALSE, e |-> e,
                   m |-> [i \in 1..n |-> IF i < last THEN bits[i] ELSE IF i = last THEN 1 ELSE 0]]

\* n / d for integers n >= 0, d > 0: the quotient's binary expansion by long
\* division (the remainder after k steps is n * 2^k mod d), rounded to 53 bits.
FloatDiv(n, d) ==
    IF n = 0 THEN FloatZero
    ELSE LET up   == FloorLog2(n, d)
             down == CeilLog2(n, d)
             nn   == n * Pow2(down)
             dd   == d * Pow2(up)
             r0   == nn - dd
             tail == [k \in 1..MantissaBits |-> (2 * ((r0 * Pow2Mod(k - 1, dd)) % dd)) \div dd]
             rem  == (r0 * Pow2Mod(MantissaBits, dd)) % dd
         IN  RoundToNearestEven(up - down,
                                [i \in 1..MantissaBits |-> IF i = 1 THEN 1 ELSE tail[i - 1]],
                                tail[MantissaBits], rem # 0)

\* x * 100 = (significand * 25) * 2^2: the exact product in limbs of LimbBits
\* bits, then rounded to 53 bits.
FloatTimes100(x) ==
    IF x.zero THEN FloatZero
    ELSE LET base == Pow2(LimbBits)
             c0 == BitsValue(x.m, MantissaBits - LimbBits + 1, MantissaBits)
             c1 == BitsValue(x.m, MantissaBits - 2 * LimbBits + 1, MantissaBits - LimbBits)
             c2 == BitsValue(x.m, MantissaBits - 3 * LimbBits + 1, MantissaBits - 2 * LimbBits)
             c3 == BitsValue(x.m, 1, MantissaBits - 3 * LimbBits)
             t0 == c0 * 25
             t1 == c1 * 25 + t0 \div base
             t2 == c2 * 25 + t1 \div base
             t3 == c3 * 25 + t2 \div base
             limbs == <<t0 % base, t1 % base, t2 % base, t3>>
             L  == BitLength(t3) + 3 * LimbBits
             p  == [i \in 1..L |->
                      LET w == L - i
                          k == IF w \div LimbBits > 3 THEN 3 ELSE w \div LimbBits
                      IN  (limbs[k + 1] \div Pow2(w - k * LimbBits)) % 2]
         IN  RoundToNearestEven(x.e + 2 + (L - MantissaBits),
                                [i \in 1..MantissaBits |-> p[i]],
                                p[MantissaBits + 1],
                                \E i \in (MantissaBits + 2)..L : p[i] = 1)

IntegerPart(x) == IF x.zero \/ x.e < 0 THEN 0 ELSE BitsValue(x.m, 1, x.e + 1)
HalfBit(x) == IF x.zero \/ x.e < -1 THEN 0 ELSE x.m[x.e + 2]
BelowHalfBit(x) ==
    IF x.zero THEN FALSE
    ELSE IF x.e < -1 THEN TRUE
    ELSE \E i \in (x.e + 3)..Len(x.m) : x.m[i] = 1

\* Math.round of (negative ? -x : x): the nearest integer, ties towards +infinity.
MathRound(negative, x) ==
    IF ~negative THEN IntegerPart(x) + HalfBit(x)
    ELSE -(IntegerPart(x) + (IF HalfBit(x) = 1 /\ BelowHalfBit(x) THEN 1 ELSE 0))

MathMax(a, b) == IF a >= b THEN a ELSE b

\* The score without Math.max: a run with more violations than files goes negative.
calculateAdherenceScoreUnclamped(scanned, violations) ==
    IF scanned = 0 THEN 100
    ELSE MathRound(scanned - violations < 0,
                   FloatTimes100(FloatDiv(Abs(scanned - violations), scanned)))

\* The score with the zero-files case answered 0 instead of 100.
calculateAdherenceScoreZeroFiles(scanned, violations) ==
    IF scanned = 0 THEN 0
    ELSE MathMax(0, MathRound(scanned - violations < 0,
                     FloatTimes100(FloatDiv(Abs(scanned - violations), scanned))))

calculateAdherenceScore(scanned, violations) ==
    IF scanned = 0 THEN 100
    ELSE MathMax(0, MathRound(scanned - violations < 0,
                     FloatTimes100(FloatDiv(Abs(scanned - violations), scanned))))

-----------------------------------------------------------------------------
(* Strings, patterns and RegExp.prototype.test.                            *)

\* JavaScript's a || b on strings: the empty string (or undefined) is falsy.
\* OrElse is for names and instants, OrElsePath for paths (character sequences).
OrElse(a, b) == IF a = "" THEN b ELSE a
OrElsePath(a, b) == IF a = <<>> THEN b ELSE a

SetMin(S) == CHOOSE i \in S : \A j \in S : i <= j

\* A RegExp object: a literal to find, optionally anchored at the end ($),
\* with its flags; defined = FALSE is the absent test of a rule or plugin.
RegExpOf(lit, atEnd, flags) == [defined |-> TRUE, lit |-> lit, atEnd |-> atEnd, flags |-> flags]
NoTest == [defined |-> FALSE, lit |-> <<>>, atEnd |-> FALSE, flags |-> {}]

\* re.test(str) with re.lastIndex = li: the answer and the new lastIndex. Only a
\* global (g) or sticky (y) pattern reads and writes lastIndex.
RegExpTest(re, li, str) ==
    LET stateful == re.flags \cap {"g", "y"} # {}
        start    == IF stateful THEN li ELSE 0
        n        == Len(re.lit)
        hits     == {i \in start..(Len(str) - n) :
                        /\ SubSeq(str, i + 1, i + n) = re.lit
                        /\ re.atEnd => i + n = Len(str)
                        /\ "y" \in re.flags => i = start}
    IN  IF hits = {}
        THEN [matched |-> FALSE, lastIndex |-> IF stateful THEN 0 ELSE li]
        ELSE [matched |-> TRUE,
              lastIndex |-> IF stateful THEN SetMin(hits) + n ELSE li]

\* A matcher that accepts whatever it is given.
fileMatchesRuleAlways(filePath, test, li) == [matched |-> TRUE, lastIndex |-> li]

fileMatchesRule(filePath, test, li) ==
    IF ~test.defined THEN [matched |-> TRUE, lastIndex |-> li]
    ELSE RegExpTest(test, li, filePath)

-----------------------------------------------------------------------------
(* The file system under the root directory: relative path, whether        *)
(* fs.readFile succeeds, and what the built-in plugins' patterns find in   *)
(* the content (numbers of matches, JSX elements in document order).       *)

Element(tag, source, props) == [tag |-> tag, source |-> source, props |-> props]

FilePool == <<
    [rel |-> <<"a", "x">>, readable |-> TRUE, styles |-> 1, imgs |-> 3, buttons |-> 0,
     unused |-> 1,
     elems |-> <<Element("Button", "@mui/material", {"size"}),
                 Element("Card", "", {}),
                 Element("Button", "@mui/material", {"spread", "color"})>>],
    [rel |-> <<"n", "x">>, readable |-> TRUE, styles |-> 0, imgs |-> 0, buttons |-> 1,
     unused |-> 0, elems |-> <<Element("Grid", "lodash", {})>>],
    [rel |-> <<"u", "x">>, readable |-> FALSE, styles |-> 0, imgs |-> 0, buttons |-> 0,
     unused |-> 0, elems |-> <<>>],
    [rel |-> <<"b", "c">>, readable |-> TRUE, styles |-> 1, imgs |-> 1, buttons |-> 0,
     unused |-> 0, elems |-> <<>>],
    [rel |-> <<"d", "x">>, readable |-> TRUE, styles |-> 2, imgs |-> 0, buttons |-> 0,
     unused |-> 0, elems |-> <<Element("Card", "", {"title"})>>]
>>

Tree == SubSeq(FilePool, 1, IF MaxFiles < Len(FilePool) THEN MaxFiles ELSE Len(FilePool))

RootDirs == {<<"r">>, <<"x">>}
ExcludeLists == {<<>>, <<(<<"n">>)>>}

AbsolutePath(rootDir, rel) == rootDir \o <<"/">> \o rel

\* The tree entry behind an absolute path.
FileAt(rootDir, path) ==
    CHOOSE f \in {Tree[i] : i \in 1..Len(Tree)} : AbsolutePath(rootDir, f.rel) = path

\* An ignore glob of the form dir/** matches the paths under dir.
GlobIgnores(pattern, rel) ==
    Len(pattern) <= Len(rel) /\ SubSeq(rel, 1, Len(pattern)) = pattern

\* glob("**/*", {cwd, ignore, absolute: true, nodir: true}) with the ignore list dropped.
GlobNoIgnore(rootDir, exclude) ==
    [i \in 1..Len(Tree) |-> AbsolutePath(rootDir, Tree[i].rel)]

\* glob("**/*", {cwd, ignore, absolute: true, nodir: true}): the absolute paths
\* of the files under cwd that no ignore pattern matches, in directory order.
Glob(rootDir, exclude) ==
    LET kept(f) == \A k \in 1..Len(exclude) : ~GlobIgnores(exclude[k], f.rel)
        left    == SelectSeq(Tree, kept)
    IN  [i \in 1..Len(left) |-> AbsolutePath(rootDir, left[i].rel)]

\* config.rules.some(rule => fileMatchesRule(file, rule.test)) from rule r on:
\* some stops at the first rule that accepts; every test made moves lastIndex.
RECURSIVE SomeRuleMatches(_, _, _, _)
SomeRuleMatches(rules, r, file, li) ==
    IF r > Len(rules) THEN [matched |-> FALSE, lastIndex |-> li]
    ELSE LET t == fileMatchesRule(file, rules[r].test, li[r])
         IN  IF t.matched
             THEN [matched |-> TRUE, lastIndex |-> [li EXCEPT ![r] = t.lastIndex]]
             ELSE SomeRuleMatches(rules, r + 1, file, [li EXCEPT ![r] = t.lastIndex])

\* files.filter(...) from candidate i on: the kept files and the lastIndex
\* values the tests leave behind.
RECURSIVE FilterFiles(_, _, _, _)
FilterFiles(candidates, i, rules, li) ==
    IF i > Len(candidates) THEN [files |-> <<>>, lastIndex |-> li]
    ELSE LET t    == SomeRuleMatches(rules, 1, candidates[i], li)
             rest == FilterFiles(candidates, i + 1, rules, t.lastIndex)
         IN  [files |-> (IF t.matched THEN <<candidates[i]>> ELSE <<>>) \o rest.files,
              lastIndex |-> rest.lastIndex]

findFiles(cfg, li) == FilterFiles(Glob(cfg.rootDir, cfg.exclude), 1, cfg.rules, li)

-----------------------------------------------------------------------------
(* Findings, component records and the plugins.                            *)
(* origin is an annotation of the model, not a field of the program: the   *)
(* invocation (file position, rule, reference) that appended the entry.    *)

Instant == "instant"          \* what new Date().toISOString() yields
HeadCommit == "head"          \* what getCurrentCommit() yields

Finding(plugin, message, severity, file, project, timestamp, origin) ==
    [plugin |-> plugin, message |-> message, severity |-> severity, file |-> file,
     project |-> project, timestamp |-> timestamp, commit |-> "", origin |-> origin]

\* The finding every built-in plugin pushes: all identity fields set, no commit.
BuiltinFinding(plugin, message, severity, ctx, origin) ==
    Finding(plugin, message, severity, ctx.filePath, ctx.project, Instant, origin)

Repeat(n, x) == [i \in 1..n |-> x]

jsxTest == RegExpOf(<<"x">>, TRUE, {})

noInlineStylePlugin ==
    [name |-> "@stile/plugin-no-inline-style", test |-> jsxTest, impl |-> "noInlineStyle"]
unusedComponentsPlugin ==
    [name |-> "@stile/plugin-unused-components", test |-> jsxTest, impl |-> "unusedComponents"]
accessibilityPlugin ==
    [name |-> "@stile/plugin-accessibility", test |-> jsxTest, impl |-> "accessibility"]
reactComponentAnalysisPlugin ==
    [name |-> "@stile/plugin-react-component-analysis", test |-> jsxTest,
     impl |-> "reactComponentAnalysis"]

\* The inline-style plugin reporting its matches as errors.
noInlineStyleRunAsError(ctx, origin) ==
    [threw |-> FALSE, components |-> ctx.components,
     findings |-> ctx.findings \o
        Repeat(ctx.source.styles,
               BuiltinFinding("@stile/plugin-no-inline-style", "inline-style", "error", ctx, origin))]

\* One finding per match of inlineStyleRegex in the source.
noInlineStyleRun(ctx, origin) ==
    [threw |-> FALSE, components |-> ctx.components,
     findings |-> ctx.findings \o
        Repeat(ctx.source.styles,
               BuiltinFinding("@stile/plugin-no-inline-style", "inline-style", "warn", ctx, origin))]

\* One info finding per exported component that the source never uses.
unusedComponentsRun(ctx, origin) ==
    [threw |-> FALSE, components |-> ctx.components,
     findings |-> ctx.findings \o
        Repeat(ctx.source.unused,
               BuiltinFinding("@stile/plugin-unused-components", "unused", "info", ctx, origin))]

\* One error per <img> match, then one warn per <button> match.
accessibilityRun(ctx, origin) ==
    [threw |-> FALSE, components |-> ctx.components,
     findings |-> ctx.findings
        \o Repeat(ctx.source.imgs,
                  BuiltinFinding("@stile/plugin-accessibility", "img-alt", "error", ctx, origin))
        \o Repeat(ctx.source.buttons,
                  BuiltinFinding("@stile/plugin-accessibility", "button-label", "warn", ctx, origin))]

DesignSystemSources == {"@mui/material"}
LocalSources == {"."}

Category(source) ==
    IF source \in LocalSources THEN "custom"
    ELSE IF source \in DesignSystemSources THEN "design-system"
    ELSE "third-party"

\* handleElement: merge the sighting into the record of the same component,
\* source and file, or push a new record.
handleElement(comps, el, ctx, origin) ==
    LET source   == OrElse(el.source, ".")
        same(c)  == c.component = el.tag /\ c.source = source /\ c.file = ctx.filePath
        found    == {i \in 1..Len(comps) : same(comps[i])}
    IN  IF found # {}
        THEN LET i == SetMin(found)
             IN  [comps EXCEPT ![i] = [@ EXCEPT !.occurrences = @ + 1,
                                                !.props = @ \cup el.props]]
        ELSE Append(comps,
                    [component |-> el.tag, source |-> source, category |-> Category(source),
                     occurrences |-> 1, props |-> el.props, project |-> ctx.project,
                     file |-> ctx.filePath, framework |-> "react", commit |-> ctx.commit,
                     origin |-> origin])

RECURSIVE handleElements(_, _, _, _, _)
handleElements(comps, elems, i, ctx, origin) ==
    IF i > Len(elems) THEN comps
    ELSE handleElements(handleElement(comps, elems[i], ctx, origin), elems, i + 1, ctx, origin)

reactComponentAnalysisRun(ctx, origin) ==
    [threw |-> FALSE, findings |-> ctx.findings,
     components |-> handleElements(ctx.components, ctx.source.elems, 1, ctx, origin)]

\* Plugins supplied from outside the bundle, as a test suite registers them or
\* as modules export them by default. They leave to the engine every field the
\* engine promises to fill.
throwingPlugin == [name |-> "plugin-throws", test |-> NoTest, impl |-> "throws"]
partialPlugin  == [name |-> "plugin-partial", test |-> NoTest, impl |-> "partial"]
barePlugin     == [name |-> "plugin-bare", test |-> NoTest, impl |-> "bare"]

\* A default export that is an object with a name and no run property.
shapelessPlugin == [name |-> "plugin-shapeless", test |-> NoTest, impl |-> "notCallable"]

BareFinding(severity, origin) == Finding("", "bare", severity, <<>>, <<>>, "", origin)

BareComponent(origin) ==
    [component |-> "Widget", source |-> ".", category |-> "custom", occurrences |-> 1,
     props |-> {}, project |-> <<>>, file |-> <<>>, framework |-> "react", commit |-> "",
     origin |-> origin]

\* Throws before appending anything.
throwingRun(ctx, origin) ==
    [threw |-> TRUE, findings |-> ctx.findings, components |-> ctx.components]

\* definition.run is undefined: the call itself throws a TypeError.
notCallableRun(ctx, origin) ==
    [threw |-> TRUE, findings |-> ctx.findings, components |-> ctx.components]

\* Appends a finding and a component record, then throws.
partialRun(ctx, origin) ==
    [threw |-> TRUE,
     findings |-> Append(ctx.findings, BareFinding("error", origin)),
     components |-> Append(ctx.components, BareComponent(origin))]

\* A finding that carries a plugin label and an instant of the plugin's own.
LabelledFinding(severity, origin) ==
    Finding("custom-label", "bare", severity, <<>>, <<>>, "earlier", origin)

\* Appends an info and a warn finding and a component record, and returns.
bareRun(ctx, origin) ==
    [threw |-> FALSE,
     findings |-> ctx.findings \o <<BareFinding("info", origin), LabelledFinding("warn", origin)>>,
     components |-> Append(ctx.components, BareComponent(origin))]

\* definition.run(context, options): what the call leaves in the context's
\* arrays, and whether it threw (or its promise rejected).
Run(definition, ctx, origin) ==
    CASE definition.impl = "noInlineStyle"          -> noInlineStyleRun(ctx, origin)
      [] definition.impl = "unusedComponents"       -> unusedComponentsRun(ctx, origin)
      [] definition.impl = "accessibility"          -> accessibilityRun(ctx, origin)
      [] definition.impl = "reactComponentAnalysis" -> reactComponentAnalysisRun(ctx, origin)
      [] definition.impl = "throws"                 -> throwingRun(ctx, origin)
      [] definition.impl = "partial"                -> partialRun(ctx, origin)
      [] definition.impl = "bare"                   -> bareRun(ctx, origin)
      [] definition.impl = "notCallable"            -> notCallableRun(ctx, origin)

-----------------------------------------------------------------------------
(* The registry and plugin resolution.                                     *)

NoPlugin == [name |-> "", test |-> NoTest, impl |-> "none"]

\* The names that start with "@stile/plugin".
StilePrefixed == {"@stile/plugin-no-inline-style", "@stile/plugin-unused-components",
                  "@stile/plugin-accessibility", "@stile/plugin-react-component-analysis",
                  "@stile/plugin-missing"}

\* The lookup table of resolvePlugin applied to the exports of @stile/plugins.
BuiltinExports ==
    [n \in {noInlineStylePlugin.name, unusedComponentsPlugin.name, accessibilityPlugin.name,
            reactComponentAnalysisPlugin.name} |->
        CASE n = noInlineStylePlugin.name          -> noInlineStylePlugin
          [] n = unusedComponentsPlugin.name       -> unusedComponentsPlugin
          [] n = accessibilityPlugin.name          -> accessibilityPlugin
          [] n = reactComponentAnalysisPlugin.name -> reactComponentAnalysisPlugin]

\* What import(name) finds: the default export of each installed module. Three
\* modules are named like the plugin they export; "module-bare" exports the
\* plugin named "plugin-bare"; "plugin-shapeless" exports an object without run.
InstalledModules ==
    [n \in {throwingPlugin.name, partialPlugin.name, barePlugin.name, "module-bare",
            shapelessPlugin.name} |->
        CASE n = throwingPlugin.name  -> throwingPlugin
          [] n = partialPlugin.name   -> partialPlugin
          [] n = barePlugin.name      -> barePlugin
          [] n = "module-bare"        -> barePlugin
          [] n = shapelessPlugin.name -> shapelessPlugin]

\* A resolution that answers an unknown name with a stand-in plugin of that name.
resolvePluginFallback(name) ==
    IF name \in StilePrefixed /\ name \in DOMAIN BuiltinExports
    THEN [ok |-> TRUE, plugin |-> BuiltinExports[name]]
    ELSE IF name \in DOMAIN InstalledModules
         THEN [ok |-> TRUE, plugin |-> InstalledModules[name]]
         ELSE [ok |-> TRUE, plugin |-> [name |-> name, test |-> NoTest, impl |-> "bare"]]

\* resolvePlugin(name): the plugin, or ok = FALSE when it throws.
resolvePlugin(name) ==
    IF name \in StilePrefixed /\ name \in DOMAIN BuiltinExports
    THEN [ok |-> TRUE, plugin |-> BuiltinExports[name]]
    ELSE IF name \in DOMAIN InstalledModules
         THEN [ok |-> TRUE, plugin |-> InstalledModules[name]]
         ELSE [ok |-> FALSE, plugin |-> NoPlugin]

\* A registration that keeps the entry a name already has.
registerPluginKeepFirst(registry, plugin) ==
    IF plugin.name \in DOMAIN registry THEN registry
    ELSE [n \in DOMAIN registry \cup {plugin.name} |->
             IF n = plugin.name THEN plugin ELSE registry[n]]

\* registerPlugin(plugin): this.pluginRegistry.set(plugin.name, plugin).
registerPlugin(registry, plugin) ==
    [n \in DOMAIN registry \cup {plugin.name} |->
        IF n = plugin.name THEN plugin ELSE registry[n]]

\* ensurePlugins(pluginRefs) from position i on.
RECURSIVE ensurePlugins(_, _, _)
ensurePlugins(registry, names, i) ==
    IF i > Len(names) THEN registry
    ELSE IF names[i] \in DOMAIN registry THEN ensurePlugins(registry, names, i + 1)
    ELSE LET r == resolvePlugin(names[i])
         IN  IF r.ok THEN ensurePlugins(registerPlugin(registry, r.plugin), names, i + 1)
             ELSE ensurePlugins(registry, names, i + 1)

\* The console.warn calls of ensurePlugins(pluginRefs) from position i on: one
\* for each name that is not registered when its turn comes and fails to resolve.
Warning(name) ==
    [kind |-> "warn", file |-> 0, rule |-> 0, ref |-> 0, ok |-> FALSE, name |-> name]

RECURSIVE ensurePluginsWarnings(_, _, _)
ensurePluginsWarnings(registry, names, i) ==
    IF i > Len(names) THEN <<>>
    ELSE IF names[i] \in DOMAIN registry THEN ensurePluginsWarnings(registry, names, i + 1)
    ELSE LET r == resolvePlugin(names[i])
         IN  IF r.ok
             THEN ensurePluginsWarnings(registerPlugin(registry, r.plugin), names, i + 1)
             ELSE <<Warning(names[i])>> \o ensurePluginsWarnings(registry, names, i + 1)

\* resolvePluginReference(entry): the registered definition, if any, and the
\* options of an object entry.
resolvePluginReference(registry, entry) ==
    [found      |-> entry.name \in DOMAIN registry,
     definition |-> IF entry.name \in DOMAIN registry THEN registry[entry.name] ELSE NoPlugin,
     options    |-> IF entry.isString THEN "" ELSE entry.options]

-----------------------------------------------------------------------------
(* Configurations.                                                         *)

Ref(name) == [name |-> name, isString |-> TRUE, options |-> ""]
RefWith(name, options) == [name |-> name, isString |-> FALSE, options |-> options]

Rule(test, plugins) == [test |-> test, plugins |-> plugins]

RulePool == <<
    Rule(NoTest, <<Ref(throwingPlugin.name), Ref(noInlineStylePlugin.name)>>),
    Rule(RegExpOf(<<"x">>, TRUE, {}),
         <<RefWith(partialPlugin.name, "strict"), Ref(barePlugin.name)>>),
    Rule(RegExpOf(<<"x">>, FALSE, {"g"}),
         <<Ref(accessibilityPlugin.name), Ref(unusedComponentsPlugin.name)>>),
    Rule(RegExpOf(<<"x">>, FALSE, {}),
         <<Ref("@stile/plugin-missing"), Ref(reactComponentAnalysisPlugin.name),
           Ref(noInlineStylePlugin.name)>>),
    Rule(RegExpOf(<<"c">>, TRUE, {}),
         <<Ref(shapelessPlugin.name), Ref("module-bare"), Ref(barePlugin.name)>>),
    Rule(RegExpOf(<<"u", "x">>, TRUE, {}), <<Ref(noInlineStylePlugin.name)>>)
>>

\* The rules of RulePool at the positions in picked, in the pool's order.
RulesAt(picked) ==
    LET rank(i) == Cardinality({j \in picked : j <= i})
    IN  [k \in 1..Cardinality(picked) |->
            RulePool[CHOOSE i \in picked : rank(i) = k]]

Configs ==
    {[rootDir |-> d, rules |-> rs, exclude |-> ex] :
        d \in RootDirs,
        rs \in {RulesAt(picked) :
                   picked \in {q \in SUBSET (1..Len(RulePool)) :
                                   Cardinality(q) <= MaxRules}},
        ex \in ExcludeLists}

\* The plugins a test suite registers by hand: one under a built-in's name,
\* one under the name of a plugin that an installed module exports.
Registerable ==
    {[name |-> noInlineStylePlugin.name, test |-> NoTest, impl |-> "bare"],
     [name |-> barePlugin.name, test |-> NoTest, impl |-> "throws"]}

-----------------------------------------------------------------------------
(* The pieces of scan and scanFile.                                        *)

\* rule.plugins.map(entry => name) over all rules, flattened.
RECURSIVE PluginNames(_, _)
PluginNames(rules, r) ==
    IF r > Len(rules) THEN <<>>
    ELSE [k \in 1..Len(rules[r].plugins) |-> rules[r].plugins[k].name]
         \o PluginNames(rules, r + 1)

\* [...new Set(names)]: the first occurrence of each name, in order.
Dedupe(names) ==
    LET first(i) == \A j \in 1..(i - 1) : names[j] # names[i]
        keep     == {i \in 1..Len(names) : first(i)}
        rank(i)  == Cardinality({j \in keep : j <= i})
    IN  [k \in 1..Cardinality(keep) |-> names[CHOOSE i \in keep : rank(i) = k]]

\* Every finding counts, info included.
ViolationsAll(fs) == Len(fs)

\* findings.filter(finding => finding.severity !== "info").length
Violations(fs) == Cardinality({i \in 1..Len(fs) : fs[i].severity # "info"})

\* A defaulting loop that assigns the five fields whether they are set or not.
BackfillFindingsOverwriting(fs, start, name, project, filePath, commit) ==
    [i \in 1..Len(fs) |->
        IF i <= start THEN fs[i]
        ELSE [fs[i] EXCEPT !.plugin    = name,
                           !.project   = project,
                           !.file      = filePath,
                           !.timestamp = Instant,
                           !.commit    = commit]]

\* The defaulting loop over the findings appended since findingStart.
BackfillFindings(fs, start, name, project, filePath, commit) ==
    [i \in 1..Len(fs) |->
        IF i <= start THEN fs[i]
        ELSE [fs[i] EXCEPT !.plugin    = OrElse(@, name),
                           !.project   = OrElsePath(@, project),
                           !.file      = OrElsePath(@, filePath),
                           !.timestamp = OrElse(@, Instant),
                           !.commit    = OrElse(@, commit)]]

\* The defaulting loop over the component records appended since componentStart.
BackfillComponents(cs, start, project, filePath, commit) ==
    [i \in 1..Len(cs) |->
        IF i <= start THEN cs[i]
        ELSE [cs[i] EXCEPT !.project = OrElsePath(@, project),
                           !.file    = OrElsePath(@, filePath),
                           !.commit  = OrElse(@, commit)]]

Event(kind, file, rule, ref, ok) ==
    [kind |-> kind, file |-> file, rule |-> rule, ref |-> ref, ok |-> ok]

CurrentFile == files[fileIdx]
CurrentRule == config.rules[ruleIdx]
CurrentRef  == CurrentRule.plugins[refIdx]
CurrentPlugin == resolvePluginReference(pluginRegistry, CurrentRef)

\* The StileContext of the file being scanned, as the plugin sees it now.
Context ==
    [filePath |-> CurrentFile, project |-> config.rootDir,
     source |-> FileAt(config.rootDir, CurrentFile),
     findings |-> ctxFindings, components |-> ctxComponents, commit |-> HeadCommit]

Outcome == Run(CurrentPlugin.definition, Context, <<fileIdx, ruleIdx, refIdx>>)

Elapsed == 0                  \* what Date.now() - startTime yields, in ms

BuildReport(cfg, fs, cs, scanned) ==
    [meta |-> [project |-> cfg.rootDir, commit |-> HeadCommit, timestamp |-> Instant,
               version |-> "0.0.0"],
     findings |-> fs,
     summary |-> [filesScanned |-> scanned,
                  violations |-> Violations(fs),
                  adherenceScore |-> calculateAdherenceScore(scanned, Violations(fs)),
                  duration |-> Elapsed],
     components |-> cs,
     metrics |-> [componentsAnalyzed |-> Len(cs),
                  designSystemComponents |->
                      Cardinality({i \in 1..Len(cs) : cs[i].category = "design-system"}),
                  customComponents |->
                      Cardinality({i \in 1..Len(cs) : cs[i].category = "custom"})]]

-----------------------------------------------------------------------------
(* The engine as a state machine. A scan call walks                        *)
(*   idle -> selecting -> files -> rules -> refs -> running -> ...        *)
(*        -> returned                                                      *)
(* where "returned" is the engine at rest right after scan returned its    *)
(* report, and pc = "rejected" is the scan promise rejecting.              *)

EmptyRegistry == [n \in {} |-> NoPlugin]

\* No loader has been constructed.
NoLoader == [at |-> "none"]

Init ==
    /\ pluginRegistry = EmptyRegistry
    /\ config \in Configs
    /\ lastIndex = [r \in 1..Len(config.rules) |-> 0]
    /\ pc = "idle"
    /\ files = <<>>
    /\ fileIdx = 1
    /\ findings = <<>>
    /\ components = <<>>
    /\ filesScanned = 0
    /\ ctxFindings = <<>>
    /\ ctxComponents = <<>>
    /\ ruleIdx = 1
    /\ refIdx = 1
    /\ findingStart = 0
    /\ componentStart = 0
    /\ reports = <<>>
    /\ log = <<>>
    /\ loader = NoLoader

scanLocals == <<files, fileIdx, findings, components, filesScanned>>
fileLocals == <<ctxFindings, ctxComponents, ruleIdx, refIdx, findingStart, componentStart>>

\* engine.registerPlugin(plugin), between scans.
RegisterPlugin ==
    /\ pc \in {"idle", "returned"}
    /\ \E p \in Registerable : pluginRegistry' = registerPlugin(pluginRegistry, p)
    /\ pc' = "idle"
    /\ UNCHANGED <<loader, config, lastIndex, scanLocals, fileLocals, reports, log>>

\* scan, up to the end of ensurePlugins.
ScanEnsurePlugins ==
    /\ pc \in {"idle", "returned"}
    /\ Len(reports) < MaxScans
    /\ pluginRegistry' = ensurePlugins(pluginRegistry, Dedupe(PluginNames(config.rules, 1)), 1)
    /\ pc' = "selecting"
    /\ log' = ensurePluginsWarnings(pluginRegistry, Dedupe(PluginNames(config.rules, 1)), 1)
    /\ UNCHANGED <<loader, config, lastIndex, scanLocals, fileLocals, reports>>

\* scan: the fresh accumulators and findFiles.
ScanFindFiles ==
    /\ pc = "selecting"
    /\ LET r == findFiles(config, lastIndex)
       IN  /\ files' = r.files
           /\ lastIndex' = r.lastIndex
    /\ findings' = <<>>
    /\ components' = <<>>
    /\ filesScanned' = 0
    /\ fileIdx' = 1
    /\ pc' = "files"
    /\ UNCHANGED <<loader, pluginRegistry, config, fileLocals, reports, log>>

\* A scanFile that builds its context on the arrays of the file before.
ReadFileOkSharedArrays ==
    /\ pc = "files"
    /\ fileIdx <= Len(files)
    /\ FileAt(config.rootDir, CurrentFile).readable
    /\ ruleIdx' = 1
    /\ refIdx' = 1
    /\ findingStart' = 0
    /\ componentStart' = 0
    /\ pc' = "rules"
    /\ log' = Append(log, Event("read", fileIdx, 0, 0, TRUE))
    /\ UNCHANGED <<loader, pluginRegistry, config, lastIndex, scanLocals, ctxFindings, ctxComponents,
                   reports>>

\* scanFile: readFile succeeds and the context is built.
ReadFileOk ==
    /\ pc = "files"
    /\ fileIdx <= Len(files)
    /\ FileAt(config.rootDir, CurrentFile).readable
    /\ ctxFindings' = <<>>
    /\ ctxComponents' = <<>>
    /\ ruleIdx' = 1
    /\ refIdx' = 1
    /\ findingStart' = 0
    /\ componentStart' = 0
    /\ pc' = "rules"
    /\ log' = Append(log, Event("read", fileIdx, 0, 0, TRUE))
    /\ UNCHANGED <<loader, pluginRegistry, config, lastIndex, scanLocals, reports>>

\* A read failure that is counted as a scanned file all the same.
ReadFileFailsCounted ==
    /\ pc = "files"
    /\ fileIdx <= Len(files)
    /\ ~FileAt(config.rootDir, CurrentFile).readable
    /\ fileIdx' = fileIdx + 1
    /\ filesScanned' = filesScanned + 1
    /\ log' = Append(log, Event("read", fileIdx, 0, 0, FALSE))
    /\ UNCHANGED <<loader, pluginRegistry, config, lastIndex, pc, files, findings, components,
                   fileLocals, reports>>

\* A read failure that scan does not catch: the scan promise rejects.
ReadFileFailsUncaught ==
    /\ pc = "files"
    /\ fileIdx <= Len(files)
    /\ ~FileAt(config.rootDir, CurrentFile).readable
    /\ pc' = "rejected"
    /\ log' = Append(log, Event("read", fileIdx, 0, 0, FALSE))
    /\ UNCHANGED <<loader, pluginRegistry, config, lastIndex, scanLocals, fileLocals, reports>>

\* scanFile: readFile rejects; scan's catch logs it and goes to the next file.
ReadFileFails ==
    /\ pc = "files"
    /\ fileIdx <= Len(files)
    /\ ~FileAt(config.rootDir, CurrentFile).readable
    /\ fileIdx' = fileIdx + 1
    /\ log' = Append(log, Event("read", fileIdx, 0, 0, FALSE))
    /\ UNCHANGED <<loader, pluginRegistry, config, lastIndex, pc, files, findings, components,
                   filesScanned, fileLocals, reports>>

\* scanFile: the rule's matcher rejects the path (continue).
RuleRejects ==
    /\ pc = "rules"
    /\ ruleIdx <= Len(config.rules)
    /\ LET t == fileMatchesRule(CurrentFile, CurrentRule.test, lastIndex[ruleIdx])
       IN  /\ ~t.matched
           /\ lastIndex' = [lastIndex EXCEPT ![ruleIdx] = t.lastIndex]
    /\ ruleIdx' = ruleIdx + 1
    /\ log' = Append(log, Event("match", fileIdx, ruleIdx, 0, FALSE))
    /\ UNCHANGED <<loader, pluginRegistry, config, pc, scanLocals, ctxFindings, ctxComponents,
                   refIdx, findingStart, componentStart, reports>>

\* scanFile: the rule's matcher accepts the path; its plugin list is entered.
RuleAccepts ==
    /\ pc = "rules"
    /\ ruleIdx <= Len(config.rules)
    /\ LET t == fileMatchesRule(CurrentFile, CurrentRule.test, lastIndex[ruleIdx])
       IN  /\ t.matched
           /\ lastIndex' = [lastIndex EXCEPT ![ruleIdx] = t.lastIndex]
    /\ refIdx' = 1
    /\ pc' = "refs"
    /\ log' = Append(log, Event("match", fileIdx, ruleIdx, 0, TRUE))
    /\ UNCHANGED <<loader, pluginRegistry, config, scanLocals, ctxFindings, ctxComponents,
                   ruleIdx, findingStart, componentStart, reports>>

\* scanFile: the rule's plugin list is exhausted.
RuleDone ==
    /\ pc = "refs"
    /\ refIdx > Len(CurrentRule.plugins)
    /\ ruleIdx' = ruleIdx + 1
    /\ pc' = "rules"
    /\ UNCHANGED <<loader, pluginRegistry, config, lastIndex, scanLocals, ctxFindings, ctxComponents,
                   refIdx, findingStart, componentStart, reports, log>>

\* A loop that invokes every registered reference, whatever the plugin's own test says.
InvocableWithoutOwnTest == CurrentPlugin.found

\* Whether the reference at refIdx leads to an invocation: it is registered,
\* and the plugin's own test, if any, accepts the path.
Invocable ==
    /\ CurrentPlugin.found
    /\ CurrentPlugin.definition.test.defined =>
           RegExpTest(CurrentPlugin.definition.test, 0, CurrentFile).matched

\* A skip that remembers a missing definition by storing an empty object under
\* the referenced name.
ReferenceSkippedCachesMiss ==
    /\ pc = "refs"
    /\ refIdx <= Len(CurrentRule.plugins)
    /\ ~Invocable
    /\ pluginRegistry' =
          IF CurrentPlugin.found THEN pluginRegistry
          ELSE registerPlugin(pluginRegistry,
                              [name |-> CurrentRef.name, test |-> NoTest, impl |-> "notCallable"])
    /\ refIdx' = refIdx + 1
    /\ UNCHANGED <<loader, config, lastIndex, pc, scanLocals, ctxFindings,
                   ctxComponents, ruleIdx, findingStart, componentStart, reports, log>>

\* scanFile: no definition, or the plugin's own test rejects the path (continue).
ReferenceSkipped ==
    /\ pc = "refs"
    /\ refIdx <= Len(CurrentRule.plugins)
    /\ ~Invocable
    /\ refIdx' = refIdx + 1
    /\ UNCHANGED <<loader, pluginRegistry, config, lastIndex, pc, scanLocals, ctxFindings,
                   ctxComponents, ruleIdx, findingStart, componentStart, reports, log>>

\* definition.run called without await: the loop goes on to the next reference
\* while the run is still pending.
InvokePluginNotAwaited ==
    /\ pc = "refs"
    /\ refIdx <= Len(CurrentRule.plugins)
    /\ Invocable
    /\ findingStart' = Len(ctxFindings)
    /\ componentStart' = Len(ctxComponents)
    /\ refIdx' = refIdx + 1
    /\ log' = Append(log, Event("invoke", fileIdx, ruleIdx, refIdx, TRUE))
    /\ UNCHANGED <<loader, pluginRegistry, config, lastIndex, pc, scanLocals, ctxFindings,
                   ctxComponents, ruleIdx, reports>>

\* scanFile: the array lengths are noted and definition.run is called.
InvokePlugin ==
    /\ pc = "refs"
    /\ refIdx <= Len(CurrentRule.plugins)
    /\ Invocable
    /\ findingStart' = Len(ctxFindings)
    /\ componentStart' = Len(ctxComponents)
    /\ pc' = "running"
    /\ log' = Append(log, Event("invoke", fileIdx, ruleIdx, refIdx, TRUE))
    /\ UNCHANGED <<loader, pluginRegistry, config, lastIndex, scanLocals, ctxFindings, ctxComponents,
                   ruleIdx, refIdx, reports>>

\* scanFile: run settles normally; the new entries are backfilled.
PluginReturns ==
    /\ pc = "running"
    /\ ~Outcome.threw
    /\ ctxFindings' = BackfillFindings(Outcome.findings, findingStart,
                          CurrentPlugin.definition.name, config.rootDir, CurrentFile, HeadCommit)
    /\ ctxComponents' = BackfillComponents(Outcome.components, componentStart,
                            config.rootDir, CurrentFile, HeadCommit)
    /\ refIdx' = refIdx + 1
    /\ pc' = "refs"
    /\ log' = Append(log, Event("settle", fileIdx, ruleIdx, refIdx, TRUE))
    /\ UNCHANGED <<loader, pluginRegistry, config, lastIndex, scanLocals, ruleIdx, findingStart,
                   componentStart, reports>>

\* A plugin failure that leaves scanFile: scan's catch takes it, and the file
\* ends there, uncounted and without its findings.
PluginThrowsAbortsFile ==
    /\ pc = "running"
    /\ Outcome.threw
    /\ ctxFindings' = Outcome.findings
    /\ ctxComponents' = Outcome.components
    /\ fileIdx' = fileIdx + 1
    /\ pc' = "files"
    /\ log' = Append(log, Event("settle", fileIdx, ruleIdx, refIdx, FALSE))
    /\ UNCHANGED <<loader, pluginRegistry, config, lastIndex, files, findings, components,
                   filesScanned, ruleIdx, refIdx, findingStart, componentStart, reports>>

\* A catch that rolls the context's arrays back to their lengths before the run.
PluginThrowsRollsBack ==
    /\ pc = "running"
    /\ Outcome.threw
    /\ ctxFindings' = SubSeq(Outcome.findings, 1, findingStart)
    /\ ctxComponents' = SubSeq(Outcome.components, 1, componentStart)
    /\ refIdx' = refIdx + 1
    /\ pc' = "refs"
    /\ log' = Append(log, Event("settle", fileIdx, ruleIdx, refIdx, FALSE))
    /\ UNCHANGED <<loader, pluginRegistry, config, lastIndex, scanLocals, ruleIdx, findingStart,
                   componentStart, reports>>

\* scanFile: run throws or rejects; the catch logs it and the loop goes on.
\* What the plugin appended before failing stays, without backfill.
PluginThrows ==
    /\ pc = "running"
    /\ Outcome.threw
    /\ ctxFindings' = Outcome.findings
    /\ ctxComponents' = Outcome.components
    /\ refIdx' = refIdx + 1
    /\ pc' = "refs"
    /\ log' = Append(log, Event("settle", fileIdx, ruleIdx, refIdx, FALSE))
    /\ UNCHANGED <<loader, pluginRegistry, config, lastIndex, scanLocals, ruleIdx, findingStart,
                   componentStart, reports>>

\* The file's results put in front of the report's arrays.
ScanFileReturnsPrepending ==
    /\ pc = "rules"
    /\ ruleIdx > Len(config.rules)
    /\ findings' = ctxFindings \o findings
    /\ components' = ctxComponents \o components
    /\ filesScanned' = filesScanned + 1
    /\ fileIdx' = fileIdx + 1
    /\ pc' = "files"
    /\ UNCHANGED <<loader, pluginRegistry, config, lastIndex, files, fileLocals, reports, log>>

\* scanFile returns; scan appends the file's results and counts the file.
ScanFileReturns ==
    /\ pc = "rules"
    /\ ruleIdx > Len(config.rules)
    /\ findings' = findings \o ctxFindings
    /\ components' = components \o ctxComponents
    /\ filesScanned' = filesScanned + 1
    /\ fileIdx' = fileIdx + 1
    /\ pc' = "files"
    /\ UNCHANGED <<loader, pluginRegistry, config, lastIndex, files, fileLocals, reports, log>>

\* scan: the loop is over; the summary is computed and the report returned.
ScanReturns ==
    /\ pc = "files"
    /\ fileIdx > Len(files)
    /\ reports' = Append(reports, BuildReport(config, findings, components, filesScanned))
    /\ pc' = "returned"
    /\ UNCHANGED <<loader, pluginRegistry, config, lastIndex, scanLocals, fileLocals, log>>

Next ==
    \/ RegisterPlugin
    \/ ScanEnsurePlugins
    \/ ScanFindFiles
    \/ ReadFileOk
    \/ ReadFileFails
    \/ RuleRejects
    \/ RuleAccepts
    \/ RuleDone
    \/ ReferenceSkipped
    \/ InvokePlugin
    \/ PluginReturns
    \/ PluginThrows
    \/ ScanFileReturns
    \/ ScanReturns

Spec == Init /\ [][Next]_vars

-----------------------------------------------------------------------------
(* The scoring path on its own: scan at the end of its file loop, after    *)
(* scanning a tree of up to ScoreMaxFiles files in which the inline-style  *)
(* and unused-component plugins found up to ScoreMaxViolations warn        *)
(* findings and up to one info finding.                                    *)

ScoreConfig ==
    [rootDir |-> <<"r">>,
     rules |-> <<Rule(NoTest, <<Ref(noInlineStylePlugin.name),
                                Ref(unusedComponentsPlugin.name)>>)>>,
     exclude |-> <<>>]

ScoreFile == AbsolutePath(<<"r">>, <<"a", "x">>)

ScoreFinding(plugin, severity) ==
    [Finding(plugin, "found", severity, ScoreFile, <<"r">>, Instant, <<1, 1, 1>>)
        EXCEPT !.commit = HeadCommit]

InitScore ==
    /\ pluginRegistry = ensurePlugins(EmptyRegistry, PluginNames(ScoreConfig.rules, 1), 1)
    /\ config = ScoreConfig
    /\ lastIndex = [r \in 1..Len(config.rules) |-> 0]
    /\ pc = "files"
    /\ \E scanned \in 0..ScoreMaxFiles :
          /\ files = Repeat(scanned, ScoreFile)
          /\ fileIdx = scanned + 1
          /\ filesScanned = scanned
    /\ \E v \in 0..ScoreMaxViolations, i \in 0..1 :
          /\ filesScanned = 0 => v + i = 0
          /\ findings = Repeat(v, ScoreFinding(noInlineStylePlugin.name, "warn"))
                        \o Repeat(i, ScoreFinding(unusedComponentsPlugin.name, "info"))
    /\ components = <<>>
    /\ ctxFindings = <<>>
    /\ ctxComponents = <<>>
    /\ ruleIdx = 1
    /\ refIdx = 1
    /\ findingStart = 0
    /\ componentStart = 0
    /\ reports = <<>>
    /\ log = <<>>
    /\ loader = NoLoader

NextScore == ScanReturns

SpecScore == InitScore /\ [][NextScore]_vars

-----------------------------------------------------------------------------
(* The scan command of the CLI (packages/cli/src/index.ts): loadConfig     *)
(* with normalizeRules, then ensurePlugins, engine.scan and saveReport on  *)
(* a new engine, with one catch around all of it that reports the error    *)
(* and exits with status 1.                                                *)
(*                                                                         *)
(* Until loadConfig has returned, config holds what the configuration file *)
(* exports: whether the file is present and can be imported, the raw rules,*)
(* the exclude list and the --path option. A raw test is a RegExp object,  *)
(* a string (a sequence of characters) or absent; a raw plugin list is an  *)
(* array, absent, or some other value; a raw entry is a string, an object  *)
(* with a name, or anything else.                                          *)

FlagChars == {"g", "i", "m", "s", "u", "y"}

\* text.match(/^\/(.+)\/([gimsuy]*)$/): the text starts with a slash, its last
\* slash comes after at least one other character, and only flag characters
\* follow it. (.+ is greedy and a slash is no flag, so the closing slash is
\* the last one.)
RegexMatch(text) ==
    LET slashes == {i \in 1..Len(text) : text[i] = "/"}
        last    == CHOOSE i \in slashes : \A j \in slashes : j <= i
    IN  IF /\ Len(text) >= 3
           /\ text[1] = "/"
           /\ last >= 3
           /\ \A i \in (last + 1)..Len(text) : text[i] \in FlagChars
        THEN [matched |-> TRUE, source |-> SubSeq(text, 2, last - 1),
              flags |-> SubSeq(text, last + 1, Len(text))]
        ELSE [matched |-> FALSE, source |-> <<>>, flags |-> <<>>]

\* new RegExp(source, flags). It throws a SyntaxError for a repeated flag and
\* for a source that is no pattern; the sources of the model are literal
\* characters with an optional closing $, or hold an unclosed "(".
NewRegExp(source, flags) ==
    LET distinct == \A i, j \in 1..Len(flags) : flags[i] = flags[j] => i = j
        wellFormed == \A i \in 1..Len(source) : source[i] # "("
        atEnd == source # <<>> /\ source[Len(source)] = "$"
    IN  IF distinct /\ wellFormed
        THEN [ok |-> TRUE,
              test |-> RegExpOf(IF atEnd THEN SubSeq(source, 1, Len(source) - 1) ELSE source,
                                atEnd, {flags[i] : i \in 1..Len(flags)})]
        ELSE [ok |-> FALSE, test |-> NoTest]

RawRegExp(re) == [kind |-> "regexp", re |-> re, text |-> <<>>]
RawString(text) == [kind |-> "string", re |-> NoTest, text |-> text]
RawAbsent == [kind |-> "absent", re |-> NoTest, text |-> <<>>]

\* The test of a normalized rule.
normalizeTest(raw) ==
    CASE raw.kind = "regexp" -> [ok |-> TRUE, test |-> raw.re]
      [] raw.kind = "string" ->
             LET regexMatch == RegexMatch(raw.text)
             IN  IF regexMatch.matched
                 THEN NewRegExp(regexMatch.source, regexMatch.flags)
                 ELSE NewRegExp(raw.text, <<>>)
      [] OTHER -> [ok |-> TRUE, test |-> NoTest]

RawName(name) == [kind |-> "string", name |-> name, options |-> ""]
RawObject(name, options) == [kind |-> "object", name |-> name, options |-> options]
RawOther == [kind |-> "other", name |-> "", options |-> ""]

\* One entry of a plugin list: a string stays, an object with a name becomes
\* {name, options}, anything else throws.
normalizeEntry(entry) ==
    CASE entry.kind = "string" -> [ok |-> TRUE, entry |-> Ref(entry.name)]
      [] entry.kind = "object" /\ entry.name # "" ->
             [ok |-> TRUE, entry |-> RefWith(entry.name, entry.options)]
      [] OTHER -> [ok |-> FALSE, entry |-> Ref("")]

RawArray(items) == [kind |-> "array", items |-> items]
RawMissing == [kind |-> "absent", items |-> <<>>]
RawNoArray == [kind |-> "other", items |-> <<>>]

RawRule(test, plugins, use) == [test |-> test, plugins |-> plugins, use |-> use]

\* One rule: rule.plugins || rule.use || [], mapped if it is an array.
normalizeRule(rule) ==
    LET plugins == IF rule.plugins.kind # "absent" THEN rule.plugins
                   ELSE IF rule.use.kind # "absent" THEN rule.use
                   ELSE RawArray(<<>>)
        items   == IF plugins.kind = "array" THEN plugins.items ELSE <<>>
        test    == normalizeTest(rule.test)
    IN  [ok   |-> test.ok /\ \A k \in 1..Len(items) : normalizeEntry(items[k]).ok,
         rule |-> Rule(test.test, [k \in 1..Len(items) |-> normalizeEntry(items[k]).entry])]

\* normalizeRules(rules): the normalized rules, or ok = FALSE when it throws.
normalizeRules(rules) ==
    [ok    |-> \A r \in 1..Len(rules) : normalizeRule(rules[r]).ok,
     rules |-> [r \in 1..Len(rules) |-> normalizeRule(rules[r]).rule]]

\* loadConfig(options.config, options.path): the StileConfig, or the message
\* of the error it throws.
loadConfig(raw) ==
    IF ~raw.present
    THEN [ok |-> FALSE, message |-> "Configuration file not found", config |-> raw]
    ELSE IF ~raw.importable \/ ~normalizeRules(raw.rules).ok
         THEN [ok |-> FALSE, message |-> "Failed to load configuration", config |-> raw]
         ELSE [ok |-> TRUE, message |-> "",
               config |-> [rootDir |-> raw.path, rules |-> normalizeRules(raw.rules).rules,
                           exclude |-> raw.exclude]]

RawRulePool == <<
    RawRule(RawRegExp(RegExpOf(<<"x">>, TRUE, {})),
            RawArray(<<RawName(noInlineStylePlugin.name), RawObject(partialPlugin.name, "strict"),
                       RawName(barePlugin.name)>>),
            RawMissing),
    RawRule(RawString(<<"/", "x", "/", "g">>),
            RawMissing,
            RawArray(<<RawName(accessibilityPlugin.name), RawName(accessibilityPlugin.name)>>)),
    RawRule(RawString(<<"c", "$">>),
            RawArray(<<RawName("module-bare"), RawName("@stile/plugin-missing")>>),
            RawArray(<<RawName(throwingPlugin.name)>>)),
    RawRule(RawString(<<"/", "(", "/">>),
            RawArray(<<RawName(noInlineStylePlugin.name)>>), RawMissing),
    RawRule(RawString(<<"/", "x", "/", "g", "g">>),
            RawArray(<<RawName(noInlineStylePlugin.name)>>), RawMissing),
    RawRule(RawAbsent, RawArray(<<RawName(accessibilityPlugin.name), RawOther>>), RawMissing),
    RawRule(RawAbsent, RawNoArray, RawMissing)
>>

RawRulesAt(picked) ==
    LET rank(i) == Cardinality({j \in picked : j <= i})
    IN  [k \in 1..Cardinality(picked) |->
            RawRulePool[CHOOSE i \in picked : rank(i) = k]]

RawConfig(present, importable, rules, exclude, path) ==
    [present |-> present, importable |-> importable, rules |-> rules, exclude |-> exclude,
     path |-> path]

RawConfigs ==
    {RawConfig(FALSE, FALSE, <<>>, <<>>, <<"r">>), RawConfig(TRUE, FALSE, <<>>, <<>>, <<"r">>)}
    \cup
    {RawConfig(TRUE, TRUE, rs, ex, d) :
        d \in RootDirs,
        rs \in {RawRulesAt(picked) :
                   picked \in {q \in SUBSET (1..Len(RawRulePool)) :
                                   Cardinality(q) <= MaxRules}},
        ex \in ExcludeLists}

\* config still holds what the configuration file exports.
IsRaw(cfg) == "present" \in DOMAIN cfg

CliEvent(kind, detail) == [kind |-> kind, detail |-> detail]

InitCli ==
    /\ pluginRegistry = EmptyRegistry
    /\ config \in RawConfigs
    /\ lastIndex = <<>>
    /\ pc = "cli"
    /\ files = <<>>
    /\ fileIdx = 1
    /\ findings = <<>>
    /\ components = <<>>
    /\ filesScanned = 0
    /\ ctxFindings = <<>>
    /\ ctxComponents = <<>>
    /\ ruleIdx = 1
    /\ refIdx = 1
    /\ findingStart = 0
    /\ componentStart = 0
    /\ reports = <<>>
    /\ log = <<>>
    /\ loader = NoLoader

\* A failure of loadConfig that the command swallows: it goes on with a
\* configuration without rules.
CliLoadConfigFailsIgnored ==
    /\ pc = "cli"
    /\ ~loadConfig(config).ok
    /\ config' = [rootDir |-> config.path, rules |-> <<>>, exclude |-> <<>>]
    /\ lastIndex' = <<>>
    /\ pc' = "loaded"
    /\ log' = <<CliEvent("error", loadConfig(config).message)>>
    /\ UNCHANGED <<loader, pluginRegistry, scanLocals, fileLocals, reports>>

\* scan command: loadConfig throws; the catch reports the message and calls
\* process.exit(1).
CliLoadConfigFails ==
    /\ pc = "cli"
    /\ ~loadConfig(config).ok
    /\ pc' = "exited"
    /\ log' = <<CliEvent("error", loadConfig(config).message), CliEvent("exit", 1)>>
    /\ UNCHANGED <<loader, pluginRegistry, config, lastIndex, scanLocals, fileLocals, reports>>

\* scan command: loadConfig returns the configuration; every RegExp in it is
\* new, with lastIndex 0.
CliLoadConfig ==
    /\ pc = "cli"
    /\ loadConfig(config).ok
    /\ config' = loadConfig(config).config
    /\ lastIndex' = [r \in 1..Len(loadConfig(config).config.rules) |-> 0]
    /\ pc' = "loaded"
    /\ UNCHANGED <<loader, pluginRegistry, scanLocals, fileLocals, reports, log>>

\* scan command: engine.ensurePlugins with every referenced name, repeats included.
CliEnsurePlugins ==
    /\ pc = "loaded"
    /\ pluginRegistry' = ensurePlugins(pluginRegistry, PluginNames(config.rules, 1), 1)
    /\ log' = log \o ensurePluginsWarnings(pluginRegistry, PluginNames(config.rules, 1), 1)
    /\ pc' = "idle"
    /\ UNCHANGED <<loader, config, lastIndex, scanLocals, fileLocals, reports>>

\* scan command: the one call of engine.scan(config).
CliScan == pc = "idle" /\ ScanEnsurePlugins

\* scan command: saveReport writes the report; the command ends normally.
CliSaveReport ==
    /\ pc = "returned"
    /\ pc' = "done"
    /\ log' = Append(log, CliEvent("write", Len(reports)))
    /\ UNCHANGED <<loader, pluginRegistry, config, lastIndex, scanLocals, fileLocals, reports>>

\* scan command: fs.writeFile rejects in saveReport; the catch reports and exits.
CliSaveReportFails ==
    /\ pc = "returned"
    /\ pc' = "exited"
    /\ log' = log \o <<CliEvent("error", "write failed"), CliEvent("exit", 1)>>
    /\ UNCHANGED <<loader, pluginRegistry, config, lastIndex, scanLocals, fileLocals, reports>>

NextCli ==
    \/ CliLoadConfigFails
    \/ CliLoadConfig
    \/ CliEnsurePlugins
    \/ CliScan
    \/ ScanFindFiles
    \/ ReadFileOk
    \/ ReadFileFails
    \/ RuleRejects
    \/ RuleAccepts
    \/ RuleDone
    \/ ReferenceSkipped
    \/ InvokePlugin
    \/ PluginReturns
    \/ PluginThrows
    \/ ScanFileReturns
    \/ ScanReturns
    \/ CliSaveReport
    \/ CliSaveReportFails

SpecCli == InitCli /\ [][NextCli]_vars

-----------------------------------------------------------------------------
(* The loader (packages/loader/src/index.ts): the schema validateReport    *)
(* parses a report with. z.object accepts properties the schema does not   *)
(* name; a property the schema names as z.string() must be there and be a  *)
(* string. A field a plugin left out (the model's "" or <<>>) is undefined.*)

Severities == {"info", "warn", "error"}

\* The schema of one element of findings.
FindingSchemaAccepts(f) ==
    /\ "project" \in DOMAIN f /\ f.project # <<>>
    /\ "rule" \in DOMAIN f /\ f.rule # ""
    /\ "file" \in DOMAIN f /\ f.file # <<>>
    /\ "message" \in DOMAIN f /\ f.message # ""
    /\ "severity" \in DOMAIN f /\ f.severity \in Severities
    /\ "timestamp" \in DOMAIN f /\ f.timestamp # ""

\* validateReport(report): TRUE when reportSchema.parse(report) does not throw.
validateReport(report) ==
    /\ report.meta.project # <<>>
    /\ report.meta.commit # ""
    /\ report.meta.timestamp # ""
    /\ report.meta.version # ""
    /\ \A i \in 1..Len(report.findings) : FindingSchemaAccepts(report.findings[i])
    /\ report.summary.filesScanned \in Nat
    /\ report.summary.violations \in Nat
    /\ report.summary.adherenceScore \in Int
    /\ report.summary.duration \in Nat

\* The loader's loadFindings as a state machine of its own: loader holds
\* this.config.batchSize (hasBatchSize = FALSE when the config leaves it out),
\* the findings argument, the loop variable i and the batches passed to
\* loadFindingsBatch so far, oldest first.

DefaultBatchSize == 1000

\* this.config.batchSize || 1000: undefined and 0 are falsy.
EffectiveBatchSize(l) ==
    IF ~l.hasBatchSize \/ l.batchSize = 0 THEN DefaultBatchSize ELSE l.batchSize

\* The index slice clamps a relative index to: a negative one counts from the end.
SliceIndex(k, len) ==
    IF k < 0 THEN (IF len + k < 0 THEN 0 ELSE len + k)
    ELSE (IF k > len THEN len ELSE k)

\* arr.slice(start, end): the elements at the (0-based) positions from start
\* up to, not including, end.
Slice(arr, start, end) ==
    SubSeq(arr, SliceIndex(start, Len(arr)) + 1, SliceIndex(end, Len(arr)))

LoaderFindingPool ==
    {ScoreFinding(noInlineStylePlugin.name, "warn"),
     ScoreFinding(unusedComponentsPlugin.name, "info")}

\* The sequences over S of length at most n.
SeqsUpTo(S, n) == UNION {[1..k -> S] : k \in 0..n}

\* The loop stops being followed once it has made more calls than any
\* terminating run over MaxFindings findings makes.
MaxBatchCalls == MaxFindings + 1

InitLoader ==
    /\ pluginRegistry = EmptyRegistry
    /\ config = ScoreConfig
    /\ lastIndex = [r \in 1..Len(config.rules) |-> 0]
    /\ pc = "idle"
    /\ files = <<>>
    /\ fileIdx = 1
    /\ findings = <<>>
    /\ components = <<>>
    /\ filesScanned = 0
    /\ ctxFindings = <<>>
    /\ ctxComponents = <<>>
    /\ ruleIdx = 1
    /\ refIdx = 1
    /\ findingStart = 0
    /\ componentStart = 0
    /\ reports = <<>>
    /\ log = <<>>
    /\ \E fs \in SeqsUpTo(LoaderFindingPool, MaxFindings),
          has \in BOOLEAN, size \in -1..MaxBatchSize :
          /\ ~has => size = 0
          /\ loader = [at |-> "loadFindings", hasBatchSize |-> has, batchSize |-> size,
                       findings |-> fs, i |-> 0, batches |-> <<>>]

engineVars == <<pluginRegistry, config, lastIndex, pc, scanLocals, fileLocals, reports, log>>

\* loadFindings: findings.length === 0, return.
LoadFindingsEmpty ==
    /\ loader.at = "loadFindings"
    /\ Len(loader.findings) = 0
    /\ loader' = [loader EXCEPT !.at = "returned"]
    /\ UNCHANGED engineVars

\* loadFindings: batchSize is computed and the loop is entered with i = 0.
LoadFindingsEnter ==
    /\ loader.at = "loadFindings"
    /\ Len(loader.findings) # 0
    /\ loader' = [loader EXCEPT !.at = "loop", !.i = 0]
    /\ UNCHANGED engineVars

\* loadFindings: one turn of the loop: slice, loadFindingsBatch, i += batchSize.
LoadFindingsBatch ==
    /\ loader.at = "loop"
    /\ loader.i < Len(loader.findings)
    /\ Len(loader.batches) < MaxBatchCalls
    /\ loader' = [loader EXCEPT
                     !.batches = Append(@, Slice(loader.findings, loader.i,
                                                 loader.i + EffectiveBatchSize(loader))),
                     !.i = @ + EffectiveBatchSize(loader)]
    /\ UNCHANGED engineVars

\* loadFindings: i < findings.length fails; the loop and the call end.
LoadFindingsDone ==
    /\ loader.at = "loop"
    /\ loader.i >= Len(loader.findings)
    /\ loader' = [loader EXCEPT !.at = "returned"]
    /\ UNCHANGED engineVars

NextLoader ==
    \/ LoadFindingsEmpty
    \/ LoadFindingsEnter
    \/ LoadFindingsBatch
    \/ LoadFindingsDone

SpecLoader == InitLoader /\ [][NextLoader]_vars

-----------------------------------------------------------------------------
(* Properties.                                                             *)

Returned == pc = "returned"
LastReport == reports[Len(reports)]

\* a <= b for two origins, compared as (file position, rule, reference).
OriginLeq(a, b) ==
    \/ a[1] < b[1]
    \/ a[1] = b[1] /\ a[2] < b[2]
    \/ a[1] = b[1] /\ a[2] = b[2] /\ a[3] <= b[3]

EventsOf(kind) == {n \in 1..Len(log) : log[n].kind = kind}
FailedRuns == {n \in EventsOf("settle") : ~log[n].ok}
ReadOk == {log[n].file : n \in {m \in EventsOf("read") : log[m].ok}}
WasInvoked(i, r, k) == \E n \in EventsOf("invoke") :
    log[n].file = i /\ log[n].rule = r /\ log[n].ref = k
\* The engine's own matcher accepted file i for rule r during this scan.
WasAccepted(i, r) == \E n \in EventsOf("match") :
    log[n].file = i /\ log[n].rule = r /\ log[n].ok
\* The reference is registered and the plugin's own test accepts file i.
Runnable(i, r, k) ==
    LET p == resolvePluginReference(pluginRegistry, config.rules[r].plugins[k])
    IN  /\ p.found
        /\ p.definition.test.defined => RegExpTest(p.definition.test, 0, files[i]).matched

\* C1: when a plugin's run throws or rejects on a file, (a) every later plugin
\* reference of that file whose rule the matcher accepted, which is registered
\* and whose own test accepts the file, is still invoked, (b) every later file
\* of the selection is still read, and (c) the file is counted in filesScanned.
C1_FailureIsolation ==
    Returned =>
        \A n \in FailedRuns :
            LET e == log[n]
            IN  /\ \A r \in e.rule..Len(config.rules) :
                       \A k \in 1..Len(config.rules[r].plugins) :
                           /\ r > e.rule \/ k > e.ref
                           /\ WasAccepted(e.file, r)
                           /\ Runnable(e.file, r, k)
                           => WasInvoked(e.file, r, k)
                /\ \A j \in (e.file + 1)..Len(files) :
                       \E m \in EventsOf("read") : log[m].file = j
                /\ e.file \in ReadOk
                /\ LastReport.summary.filesScanned = Cardinality(ReadOk)

\* A scan in which a run failed, a later plugin ran on the same file and a
\* later file was read.
C1_Witness ==
    /\ Returned
    /\ \E n \in FailedRuns :
          /\ \E m \in EventsOf("invoke") : m > n /\ log[m].file = log[n].file
          /\ \E m \in EventsOf("read") : log[m].file > log[n].file /\ log[m].ok
    /\ LastReport.summary.filesScanned >= 2

\* C2: every finding of every returned report has a non-empty plugin, project,
\* file and timestamp, however the invocation that appended it ended.
C2_FindingsFullyPopulated ==
    Returned =>
        \A i \in 1..Len(LastReport.findings) :
            LET f == LastReport.findings[i]
            IN  f.plugin # "" /\ f.project # <<>> /\ f.file # <<>> /\ f.timestamp # ""

\* max(0, round(100 * (scanned - violations) / scanned)) over the rationals,
\* halves rounded up.
ExactScore(scanned, violations) ==
    IF scanned - violations <= 0 THEN 0
    ELSE (200 * (scanned - violations) + scanned) \div (2 * scanned)

\* C3: for filesScanned > 0 the report's adherenceScore equals
\* max(0, round(100 * (filesScanned - violations) / filesScanned)).
C3_ScoreEqualsFormula ==
    Returned /\ LastReport.summary.filesScanned > 0 =>
        LastReport.summary.adherenceScore =
            ExactScore(LastReport.summary.filesScanned, LastReport.summary.violations)

\* C4: the adherenceScore of every returned report is an integer from 0 to 100,
\* also with more violations than files.
C4_ScoreInRange ==
    \A n \in 1..Len(reports) : reports[n].summary.adherenceScore \in 0..100

\* A report with more violations than scanned files.
C4_Witness ==
    /\ Returned
    /\ LastReport.summary.filesScanned > 0
    /\ LastReport.summary.violations > LastReport.summary.filesScanned
    /\ LastReport.summary.adherenceScore = 0

\* C5: a scan that ends with filesScanned = 0 returns a report with
\* adherenceScore 100, violations 0 and no findings.
C5_ZeroFilesVacuous ==
    /\ pc # "rejected"
    /\ Returned /\ LastReport.summary.filesScanned = 0 =>
          /\ LastReport.summary.adherenceScore = 100
          /\ LastReport.summary.violations = 0
          /\ LastReport.findings = <<>>

\* Files were selected and every read failed.
C5_Witness ==
    /\ Returned
    /\ Len(files) > 0
    /\ LastReport.summary.filesScanned = 0

\* C6: summary.violations is the number of warn and error findings of the whole
\* report; info findings do not count.
C6_ViolationsCountWarnError ==
    Returned =>
        LastReport.summary.violations =
            Cardinality({i \in 1..Len(LastReport.findings) :
                            LastReport.findings[i].severity \in {"warn", "error"}})

\* A report in which one file has three error findings, next to an info finding.
C6_Witness ==
    /\ Returned
    /\ \E i \in 1..Len(files) :
          Cardinality({n \in 1..Len(LastReport.findings) :
                          /\ LastReport.findings[n].origin[1] = i
                          /\ LastReport.findings[n].severity = "error"}) = 3
    /\ \E n \in 1..Len(LastReport.findings) : LastReport.findings[n].severity = "info"
    /\ LastReport.summary.violations >= 3

ReadableSelected == {i \in 1..Len(files) : FileAt(config.rootDir, files[i]).readable}

\* C7: filesScanned is the number of selected files whose read succeeded; a
\* file whose read fails contributes no finding and no component record.
C7_FilesScannedCountsReads ==
    Returned =>
        /\ LastReport.summary.filesScanned = Cardinality(ReadableSelected)
        /\ \A n \in 1..Len(LastReport.findings) :
               LastReport.findings[n].origin[1] \in ReadableSelected
        /\ \A n \in 1..Len(LastReport.components) :
               LastReport.components[n].origin[1] \in ReadableSelected

\* A selection with a file that cannot be read, a file on which a plugin threw
\* and a file that was read and has no finding.
C7_Witness ==
    /\ Returned
    /\ ReadableSelected # 1..Len(files)
    /\ FailedRuns # {}
    /\ \E i \in ReadableSelected :
          \A n \in 1..Len(LastReport.findings) : LastReport.findings[n].origin[1] # i

\* The scan is between the selection of its files and its return.
InScan == pc \in {"files", "rules", "refs", "running"}

\* The work a scan in progress has left: files not finished, then (inside a
\* file) rules not finished, then (inside a rule) references not finished,
\* each with the position inside the current one. Compared lexicographically.
ScanVariant ==
    LET filesLeft == Len(files) - fileIdx + 1
        rulesLeft == Len(config.rules) - ruleIdx + 1
        refsLeft  == Len(CurrentRule.plugins) - refIdx + 1
    IN  CASE pc = "files"   -> <<filesLeft, 1, 0, 0, 0>>
          [] pc = "rules"   -> IF ruleIdx > Len(config.rules)
                               THEN <<filesLeft, 0, 0, 0, 0>>
                               ELSE <<filesLeft, 0, rulesLeft, Len(CurrentRule.plugins) + 1, 0>>
          [] pc = "refs"    -> <<filesLeft, 0, rulesLeft, refsLeft, 1>>
          [] pc = "running" -> <<filesLeft, 0, rulesLeft, refsLeft, 0>>
          [] OTHER          -> <<0, 0, 0, 0, 0>>

LexLess(s, t) ==
    \E i \in 1..Len(t) : s[i] < t[i] /\ \A j \in 1..(i - 1) : s[j] = t[j]

\* A scan in progress can take a step: a read and a run, failing or not, are
\* each followed by a step of the same scan, and so is every loop position.
\* (At the end of the file list the step is ScanReturns, whose only
\* conditions are pc = "files" and fileIdx > Len(files).)
ScanCanStep ==
    /\ pc = "files" /\ fileIdx <= Len(files) => ENABLED (ReadFileOk \/ ReadFileFails)
    /\ pc = "rules" => ENABLED (RuleRejects \/ RuleAccepts \/ ScanFileReturns)
    /\ pc = "refs" => ENABLED (RuleDone \/ ReferenceSkipped \/ InvokePlugin)
    /\ pc = "running" => ENABLED (PluginReturns \/ PluginThrows)

\* C8: once the file list is selected the scan always returns a report with
\* its summary counts and never rejects: the scan is never in the rejected
\* state, a scan in progress always has a next step, every step of a scan in
\* progress leaves strictly less work (so the steps end), the only way out of
\* a scan in progress is the return of a new report, and that report carries
\* the counts.
C8_ScanAlwaysReports ==
    /\ [](pc # "rejected" /\ ScanCanStep)
    /\ [][InScan =>
            /\ LexLess(ScanVariant', ScanVariant)
            /\ ~InScan' =>
                  /\ pc' = "returned"
                  /\ Len(reports') = Len(reports) + 1
                  /\ reports'[Len(reports')].summary.filesScanned = filesScanned
                  /\ reports'[Len(reports')].summary.violations \in 0..Len(findings)]_vars


\* The second scan of an engine returned although a read and a run failed in it.
C8_Witness ==
    /\ Returned
    /\ Len(reports) = 2
    /\ \E n \in EventsOf("read") : ~log[n].ok
    /\ FailedRuns # {}

\* C9: invocations happen in the order (file, rule, reference); in the report
\* the findings and the component records are ordered by the invocation that
\* appended them, so all entries of a file precede those of a later file.
C9_OrderedReport ==
    /\ \A m, n \in EventsOf("invoke") :
           m < n => /\ OriginLeq(<<log[m].file, log[m].rule, log[m].ref>>,
                                 <<log[n].file, log[n].rule, log[n].ref>>)
                    /\ <<log[m].file, log[m].rule, log[m].ref>> #
                       <<log[n].file, log[n].rule, log[n].ref>>
    /\ Returned =>
          /\ \A m, n \in 1..Len(LastReport.findings) :
                 m < n => OriginLeq(LastReport.findings[m].origin,
                                    LastReport.findings[n].origin)
          /\ \A m, n \in 1..Len(LastReport.components) :
                 m < n => OriginLeq(LastReport.components[m].origin,
                                    LastReport.components[n].origin)

\* A report with findings of two files, of two rules on one file, and with
\* component records of two files.
C9_Witness ==
    /\ Returned
    /\ \E m, n \in 1..Len(LastReport.findings) :
          LastReport.findings[m].origin[1] < LastReport.findings[n].origin[1]
    /\ \E m, n \in 1..Len(LastReport.findings) :
          /\ LastReport.findings[m].origin[1] = LastReport.findings[n].origin[1]
          /\ LastReport.findings[m].origin[2] < LastReport.findings[n].origin[2]
    /\ \E m, n \in 1..Len(LastReport.components) :
          LastReport.components[m].origin[1] < LastReport.components[n].origin[1]

Excluded(cfg, rel) == \E k \in 1..Len(cfg.exclude) : GlobIgnores(cfg.exclude[k], rel)

\* C10: a file that an exclude glob matches is never in the selected list, so
\* no plugin is invoked on it and nothing in the accumulators comes from it.
C10_ExcludePrecedence ==
    /\ \A i \in 1..Len(files) : ~Excluded(config, FileAt(config.rootDir, files[i]).rel)
    /\ \A n \in 1..Len(findings) :
           ~Excluded(config, FileAt(config.rootDir, files[findings[n].origin[1]]).rel)

\* Two rules, both accepting the path of a file that an exclude glob matches,
\* and a scan that invoked plugins on other files.
C10_Witness ==
    /\ Returned
    /\ Len(config.rules) = 2
    /\ \E t \in 1..Len(Tree) :
          /\ Excluded(config, Tree[t].rel)
          /\ \A r \in 1..Len(config.rules) :
                 fileMatchesRule(AbsolutePath(config.rootDir, Tree[t].rel),
                                 config.rules[r].test, 0).matched
    /\ EventsOf("invoke") # {}
    /\ LastReport.findings # <<>>

-----------------------------------------------------------------------------
(* File selection.                                                         *)

\* The file list of the current scan is selected (and kept until the next scan).
Selected == pc \in {"files", "rules", "refs", "running", "returned"}

\* The rule's pattern matches the path: what a rule's test says of a path,
\* taken by itself.
PatternAccepts(test, path) == ~test.defined \/ RegExpTest(test, 0, path).matched

\* The tree entries that no exclude glob matches.
NotExcluded(cfg) ==
    {f \in {Tree[i] : i \in 1..Len(Tree)} :
        \A k \in 1..Len(cfg.exclude) : ~GlobIgnores(cfg.exclude[k], f.rel)}

\* C11: findFiles returns exactly the files under rootDir that no exclude glob
\* matches and that the pattern of at least one rule accepts (a rule without a
\* test accepts every file); no path appears twice, and an empty rule list
\* selects nothing.
C11_FindFilesExact ==
    Selected =>
        /\ {files[i] : i \in 1..Len(files)} =
               {AbsolutePath(config.rootDir, f.rel) : f \in
                   {g \in NotExcluded(config) :
                       \E r \in 1..Len(config.rules) :
                           PatternAccepts(config.rules[r].test,
                                          AbsolutePath(config.rootDir, g.rel))}}
        /\ \A i, j \in 1..Len(files) : files[i] = files[j] => i = j
        /\ config.rules = <<>> => files = <<>>

\* The path of a selected file relative to the scan root.
RelativePath(cfg, path) == SubSeq(path, Len(cfg.rootDir) + 2, Len(path))

\* No rule's test carries the g or the y flag.
StatelessTests ==
    \A r \in 1..Len(config.rules) : config.rules[r].test.flags \cap {"g", "y"} = {}

\* C12: rule matchers see the path relative to the scan root: a file is
\* selected exactly when some rule's pattern accepts its root-relative path,
\* and a rule is applied to a file in scanFile exactly when its pattern accepts
\* that path. Stated for rules whose tests are stateless, so that the answer
\* of a test is a function of the pattern and the path alone.
C12_RootRelativeMatching ==
    Selected /\ StatelessTests =>
        /\ {files[i] : i \in 1..Len(files)} =
               {AbsolutePath(config.rootDir, f.rel) : f \in
                   {g \in NotExcluded(config) :
                       \E r \in 1..Len(config.rules) :
                           PatternAccepts(config.rules[r].test, g.rel)}}
        /\ \A n \in EventsOf("match") :
               log[n].ok = PatternAccepts(config.rules[log[n].rule].test,
                                          RelativePath(config, files[log[n].file]))

-----------------------------------------------------------------------------
(* Plugin resolution and the registry.                                     *)

\* ensurePlugins of the current scan has run.
Ensured == pc \in {"selecting", "files", "rules", "refs", "running", "returned"}

\* The warnings ensurePlugins logged for a name in the current scan.
WarningsFor(name) == {n \in EventsOf("warn") : log[n].name = name}

\* The name is no export of the bundle and no installed module.
Unresolvable(name) == name \notin DOMAIN BuiltinExports \cup DOMAIN InstalledModules

\* C13: a referenced name that is not registered and that neither the bundle
\* nor import resolves gets exactly one warning from ensurePlugins and no
\* registry entry; the scan does not fail; the reference is never invoked,
\* the other references of its rule still are, and no finding of the report
\* carries that name.
C13_UnresolvedPluginSkipped ==
    Ensured =>
        \A r \in 1..Len(config.rules) : \A k \in 1..Len(config.rules[r].plugins) :
            LET name == config.rules[r].plugins[k].name
            IN  Unresolvable(name) /\ name \notin {p.name : p \in Registerable} =>
                    /\ Cardinality(WarningsFor(name)) = 1
                    /\ name \notin DOMAIN pluginRegistry
                    /\ pc # "rejected"
                    /\ \A i \in 1..Len(files) : ~WasInvoked(i, r, k)
                    /\ Returned =>
                          /\ \A i \in 1..Len(files) :
                                 \A j \in 1..Len(config.rules[r].plugins) :
                                     j # k /\ WasAccepted(i, r) /\ Runnable(i, r, j)
                                     => WasInvoked(i, r, j)
                          /\ \A n \in 1..Len(LastReport.findings) :
                                 LastReport.findings[n].plugin # name

\* A scan returned in which a rule names an unresolvable plugin, the warning
\* was logged and the rule's other plugin ran and recorded components.
C13_Witness ==
    /\ Returned
    /\ WarningsFor("@stile/plugin-missing") # {}
    /\ \E n \in EventsOf("invoke") :
          config.rules[log[n].rule].plugins[log[n].ref].name =
              reactComponentAnalysisPlugin.name
    /\ LastReport.components # <<>>

\* The module loaded for the name exports an object without a run operation.
Shapeless(name) ==
    name \in DOMAIN InstalledModules /\ InstalledModules[name].impl = "notCallable"

\* C14: a referenced name whose module does not export an object with a run
\* operation fails to resolve: ensurePlugins warns, registers no entry for it,
\* and no reference to it is ever invoked (so none fails in an invocation).
C14_ShapeCheckedResolution ==
    Ensured =>
        \A r \in 1..Len(config.rules) : \A k \in 1..Len(config.rules[r].plugins) :
            LET name == config.rules[r].plugins[k].name
            IN  Shapeless(name) =>
                    /\ WarningsFor(name) # {}
                    /\ name \notin DOMAIN pluginRegistry
                    /\ \A i \in 1..Len(files) : ~WasInvoked(i, r, k)

\* Every plugin object the model knows: the bundle's, the modules' exports and
\* the ones registered by hand. Two of them share the inline-style name and
\* two the plugin-bare name.
KnownPlugins ==
    Registerable \cup {BuiltinExports[n] : n \in DOMAIN BuiltinExports}
                 \cup {InstalledModules[n] : n \in DOMAIN InstalledModules}

\* registerPlugin applied to a registry inserts or replaces the entry of
\* plugin.name and leaves the others as they are.
SetsEntry(before, plugin, after) ==
    /\ DOMAIN after = DOMAIN before \cup {plugin.name}
    /\ after[plugin.name] = plugin
    /\ \A n \in DOMAIN before \ {plugin.name} : after[n] = before[n]

\* C15: registerPlugin(plugin) inserts or replaces the entry keyed by
\* plugin.name and leaves every other entry unchanged; of two registrations
\* under one name the later one stays, and registering a plugin twice equals
\* registering it once. Checked on every registry the engine reaches, for
\* every known plugin, and on every registerPlugin step of the engine.
C15_RegisterLastWins ==
    /\ [](\A p \in KnownPlugins :
            LET once == registerPlugin(pluginRegistry, p)
            IN  /\ SetsEntry(pluginRegistry, p, once)
                /\ registerPlugin(once, p) = once
                /\ \A q \in KnownPlugins :
                       q.name = p.name =>
                           registerPlugin(registerPlugin(pluginRegistry, q), p) = once)
    /\ [][pc' = "idle" =>
            \E p \in Registerable : SetsEntry(pluginRegistry, p, pluginRegistry')]_vars

\* After a first scan that ran the bundle's inline-style plugin, a plugin
\* registered by hand under the same name has replaced it, next to other entries.
C15_Witness ==
    /\ pc = "idle"
    /\ Len(reports) >= 1
    /\ \E n \in 1..Len(reports[1].findings) : reports[1].findings[n].message = "inline-style"
    /\ noInlineStylePlugin.name \in DOMAIN pluginRegistry
    /\ pluginRegistry[noInlineStylePlugin.name] \in Registerable
    /\ Cardinality(DOMAIN pluginRegistry) >= 2

\* C16: after ensurePlugins, every referenced name whose resolution succeeded
\* is a key of the registry, so that resolvePluginReference finds a definition
\* for every rule entry with that name.
C16_ResolvedNamesRegistered ==
    Ensured =>
        \A r \in 1..Len(config.rules) : \A k \in 1..Len(config.rules[r].plugins) :
            LET entry == config.rules[r].plugins[k]
            IN  resolvePlugin(entry.name).ok =>
                    /\ entry.name \in DOMAIN pluginRegistry
                    /\ resolvePluginReference(pluginRegistry, entry).found

-----------------------------------------------------------------------------
(* Component records.                                                      *)

\* The merge key of a component record.
MergeKey(c) == <<c.project, c.file, c.component, c.source>>

\* The plugin definition behind an invocation event of the current scan.
InvokedDefinition(n) ==
    resolvePluginReference(pluginRegistry,
                           config.rules[log[n].rule].plugins[log[n].ref]).definition

\* How often one run of the definition on the file sights the component from
\* the source: the matching JSX elements for the analysis plugin, one record
\* for the plugins that record a Widget on every run.
SightingsIn(definition, file, component, source) ==
    CASE definition.impl = "reactComponentAnalysis" ->
             Cardinality({e \in 1..Len(file.elems) :
                             /\ file.elems[e].tag = component
                             /\ OrElse(file.elems[e].source, ".") = source})
      [] definition.impl \in {"bare", "partial"} ->
             IF component = "Widget" /\ source = "." THEN 1 ELSE 0
      [] OTHER -> 0

\* The sightings of a record's key in the current scan, over all invocations.
Sightings(c) ==
    Cardinality(UNION {
        {<<n, j>> : j \in 1..SightingsIn(InvokedDefinition(n),
                                         FileAt(config.rootDir, files[log[n].file]),
                                         c.component, c.source)} :
        n \in {m \in EventsOf("invoke") : files[log[m].file] = c.file}})

\* C17: in every report no two component records share the key (project,
\* file, component, source), and the occurrences of a record equal the number
\* of sightings of its key in the scan.
C17_MergeLaw ==
    Returned =>
        /\ \A m, n \in 1..Len(LastReport.components) :
               MergeKey(LastReport.components[m]) = MergeKey(LastReport.components[n])
               => m = n
        /\ \A m \in 1..Len(LastReport.components) :
               LastReport.components[m].occurrences = Sightings(LastReport.components[m])

-----------------------------------------------------------------------------
(* Failed invocations.                                                     *)

\* What the run behind log event n appends when it starts from empty arrays.
AppendedBy(n) ==
    Run(InvokedDefinition(n),
        [filePath |-> files[log[n].file], project |-> config.rootDir,
         source |-> FileAt(config.rootDir, files[log[n].file]),
         findings |-> <<>>, components |-> <<>>, commit |-> HeadCommit],
        <<log[n].file, log[n].rule, log[n].ref>>)

\* The entries of a sequence that the invocation with this origin appended.
FromOrigin(entries, origin) ==
    LET appended(x) == x.origin = origin
    IN  SelectSeq(entries, appended)

\* Entry i of the sequence stands where the order of invocations puts it.
InPlace(entries, i) ==
    /\ \A j \in 1..(i - 1) : OriginLeq(entries[j].origin, entries[i].origin)
    /\ \A j \in (i + 1)..Len(entries) : OriginLeq(entries[i].origin, entries[j].origin)

\* C18: a run that throws or rejects keeps what it appended before failing:
\* each finding and component record it pushed is in the returned report,
\* exactly as pushed, at the place of its invocation.
C18_PartialContributionsKept ==
    Returned =>
        \A n \in FailedRuns :
            LET origin == <<log[n].file, log[n].rule, log[n].ref>>
            IN  /\ FromOrigin(LastReport.findings, origin) = AppendedBy(n).findings
                /\ FromOrigin(LastReport.components, origin) = AppendedBy(n).components
                /\ \A i \in 1..Len(LastReport.findings) :
                       LastReport.findings[i].origin = origin
                       => InPlace(LastReport.findings, i)
                /\ \A i \in 1..Len(LastReport.components) :
                       LastReport.components[i].origin = origin
                       => InPlace(LastReport.components, i)

\* A report that holds the finding and the component record of a run that
\* threw after pushing them, between the entries of other invocations.
C18_Witness ==
    /\ Returned
    /\ \E n \in FailedRuns :
          /\ AppendedBy(n).findings # <<>>
          /\ AppendedBy(n).components # <<>>
          /\ \E i \in 2..(Len(LastReport.findings) - 1) :
                 LastReport.findings[i].origin = <<log[n].file, log[n].rule, log[n].ref>>

-----------------------------------------------------------------------------
(* Scheduling.                                                             *)

\* Log event m is the settling (fulfilled or rejected) of invocation n.
Settles(m, n) ==
    /\ log[m].kind = "settle"
    /\ log[m].file = log[n].file /\ log[m].rule = log[n].rule /\ log[m].ref = log[n].ref

\* The invocations that have started and not settled.
InFlight == {n \in EventsOf("invoke") : \A m \in (n + 1)..Len(log) : ~Settles(m, n)}

\* C19: within a scan at most one plugin invocation is in flight; the step
\* after the start of an invocation is its settling, so no other invocation
\* and no read starts before it; and when a file is read, every invocation of
\* the earlier files has settled.
C19_SequentialExecution ==
    /\ Cardinality(InFlight) <= 1
    /\ InFlight # {} <=> pc = "running"
    /\ \A n \in EventsOf("invoke") : n < Len(log) => Settles(n + 1, n)
    /\ \A n \in EventsOf("read") : \A m \in EventsOf("invoke") :
           log[m].file < log[n].file =>
               m < n /\ \E k \in (m + 1)..(n - 1) : Settles(k, m)

\* A scan with two invocations on one file, one of them rejected, and an
\* invocation on a later file.
C19_Witness ==
    /\ Returned
    /\ \E m, n \in EventsOf("invoke") :
          /\ m < n
          /\ log[m].file = log[n].file
          /\ \E k \in FailedRuns : Settles(k, m)
    /\ \E m, n \in EventsOf("invoke") : log[m].file < log[n].file

\* C20: within a scan the registry is written only by the ensurePlugins phase:
\* no step from the selection of the files to the return of the report
\* changes the registry, so every change of the registry is made by a step
\* that starts with no scan under way (ensurePlugins at the start of a scan,
\* or registerPlugin between scans).
C20_RegistryFrame ==
    [][/\ pc \in {"selecting", "files", "rules", "refs", "running"}
           => pluginRegistry' = pluginRegistry
       /\ pluginRegistry' # pluginRegistry => pc \in {"idle", "returned"}]_vars

\* A scan returned after ensurePlugins filled the registry, plugins were
\* invoked and a reference without a definition was passed over.
C20_Witness ==
    /\ Returned
    /\ Cardinality(DOMAIN pluginRegistry) >= 2
    /\ EventsOf("invoke") # {}
    /\ \E n \in EventsOf("match") :
          /\ log[n].ok
          /\ \E k \in 1..Len(config.rules[log[n].rule].plugins) :
                 config.rules[log[n].rule].plugins[k].name \notin DOMAIN pluginRegistry

-----------------------------------------------------------------------------
(* Repeated scans.                                                         *)

\* No plugin was registered by hand on this engine: the registry holds only
\* what ensurePlugins put there.
NoHandRegistration ==
    \A p \in Registerable : p.name \in DOMAIN pluginRegistry => pluginRegistry[p.name] # p

\* A finding and a component record with the clock and the commit left out.
FindingModuloClock(f) == [f EXCEPT !.timestamp = "", !.commit = ""]
ComponentModuloClock(c) == [c EXCEPT !.commit = ""]

\* C21: two scans of the same tree with the same configuration, run one after
\* the other on one engine with nothing registered in between, return reports
\* with the same findings and the same component records, timestamp and
\* commit left aside.
C21_ScanIdempotent ==
    Len(reports) = 2 /\ NoHandRegistration =>
        /\ [i \in 1..Len(reports[1].findings) |-> FindingModuloClock(reports[1].findings[i])]
           = [i \in 1..Len(reports[2].findings) |-> FindingModuloClock(reports[2].findings[i])]
        /\ [i \in 1..Len(reports[1].components) |->
               ComponentModuloClock(reports[1].components[i])]
           = [i \in 1..Len(reports[2].components) |->
               ComponentModuloClock(reports[2].components[i])]

-----------------------------------------------------------------------------
(* The scan command.                                                       *)

\* The engine has not been touched: nothing registered, no warning of
\* ensurePlugins, no file selected or read, no plugin invoked, no report.
EngineUntouched ==
    /\ pluginRegistry = EmptyRegistry
    /\ files = <<>> /\ findings = <<>> /\ components = <<>> /\ filesScanned = 0
    /\ reports = <<>>
    /\ \A n \in 1..Len(log) : log[n].kind \in {"error", "exit"}

\* C22: when loadConfig fails (file missing, import failing, a test pattern
\* that is no regular expression, an invalid plugin reference), the command
\* reports the error and exits with status 1, its next and last step;
\* ensurePlugins and engine.scan are never called and no report is written.
C22_ConfigErrorsStopScan ==
    /\ [](IsRaw(config) /\ ~loadConfig(config).ok =>
            /\ pc \in {"cli", "exited"}
            /\ EngineUntouched
            /\ pc = "exited" =>
                  log = <<CliEvent("error", loadConfig(config).message), CliEvent("exit", 1)>>)
    /\ [][/\ pc = "cli" /\ ~loadConfig(config).ok => pc' = "exited"
          /\ pc # "exited"]_vars

\* The command has exited on a configuration whose first rule is fine and
\* whose second rule has a test string that is no regular expression.
C22_Witness ==
    /\ pc = "exited"
    /\ IsRaw(config)
    /\ config.present /\ config.importable
    /\ Len(config.rules) = 2
    /\ normalizeRule(config.rules[1]).ok
    /\ ~normalizeTest(config.rules[2].test).ok
    /\ log[Len(log)] = CliEvent("exit", 1)

-----------------------------------------------------------------------------
(* The inline-style scenario.                                              *)

\* Selected file i was read and its content is <div style={{color: 'red'}}/>:
\* inlineStyleRegex has exactly one match in it.
ScenarioFile(i) ==
    /\ FileAt(config.rootDir, files[i]).readable
    /\ FileAt(config.rootDir, files[i]).styles = 1

\* The name @stile/plugin-no-inline-style stands for the bundled plugin.
BundledInlineStyle ==
    /\ noInlineStylePlugin.name \in DOMAIN pluginRegistry
    /\ pluginRegistry[noInlineStylePlugin.name] = noInlineStylePlugin

\* The findings of the last report that the inline-style plugin made on file i.
InlineStyleFindings(i) ==
    {n \in 1..Len(LastReport.findings) :
        /\ LastReport.findings[n].plugin = noInlineStylePlugin.name
        /\ LastReport.findings[n].file = files[i]}

\* The references to the inline-style plugin in rules whose pattern accepts
\* the path, and in rules that scanFile applied to file i.
InlineStyleReferences(accepts(_)) ==
    {rk \in UNION {{<<r, k>> : k \in 1..Len(config.rules[r].plugins)} :
                      r \in 1..Len(config.rules)} :
        /\ config.rules[rk[1]].plugins[rk[2]].name = noInlineStylePlugin.name
        /\ accepts(rk[1])}

\* C23 as stated: a selected file with the scenario's content, under a
\* matching rule whose plugin list includes the inline-style plugin, has
\* exactly one finding of that plugin in the report, with severity warn and
\* the file's path.
C23_InlineStyleScenario ==
    Returned /\ BundledInlineStyle =>
        \A i \in 1..Len(files) :
            LET matching(r) == PatternAccepts(config.rules[r].test, files[i])
            IN  ScenarioFile(i) /\ InlineStyleReferences(matching) # {} =>
                    /\ Cardinality(InlineStyleFindings(i)) = 1
                    /\ \A n \in InlineStyleFindings(i) :
                           LastReport.findings[n].severity = "warn"

\* C23, amended: the plugin runs once for each reference to it in a rule that
\* scanFile applies to the file, and only on paths its own test accepts. A
\* file with the scenario's content whose path the plugin's test accepts has
\* one finding of the plugin per such reference (exactly one for a single
\* reference), each with severity warn and the file's path; a file whose path
\* the plugin's test rejects has none.
C23_InlineStylePerReference ==
    Returned /\ BundledInlineStyle =>
        \A i \in 1..Len(files) :
            LET applied(r) == WasAccepted(i, r)
            IN  ScenarioFile(i) =>
                    /\ Cardinality(InlineStyleFindings(i)) =
                          IF RegExpTest(noInlineStylePlugin.test, 0, files[i]).matched
                          THEN Cardinality(InlineStyleReferences(applied))
                          ELSE 0
                    /\ \A n \in InlineStyleFindings(i) :
                           LastReport.findings[n].severity = "warn"

\* A report with exactly one inline-style finding, a warn, for a file with the
\* scenario's content under one rule naming the plugin, and none for another
\* such file whose path the plugin's own test rejects.
C23_Witness ==
    /\ Returned /\ BundledInlineStyle
    /\ \E i \in 1..Len(files) :
          /\ ScenarioFile(i)
          /\ Cardinality(InlineStyleFindings(i)) = 1
          /\ \A n \in InlineStyleFindings(i) : LastReport.findings[n].severity = "warn"
    /\ \E i \in 1..Len(files) :
          /\ ScenarioFile(i)
          /\ \E r \in 1..Len(config.rules) :
                 /\ WasAccepted(i, r)
                 /\ \E k \in 1..Len(config.rules[r].plugins) :
                        config.rules[r].plugins[k].name = noInlineStylePlugin.name
          /\ InlineStyleFindings(i) = {}

-----------------------------------------------------------------------------
(* Backfill.                                                               *)

\* What the run in progress pushes, as the plugin wrote it: the findings it
\* appends to a context whose arrays are empty.
Pushed ==
    Run(CurrentPlugin.definition,
        [Context EXCEPT !.findings = <<>>, !.components = <<>>],
        <<fileIdx, ruleIdx, refIdx>>).findings

\* C24: when a run returns normally, the findings it appended come after the
\* earlier ones, which stay exactly as they were; each appended finding keeps
\* the plugin, project, file, timestamp and commit the plugin set and gets the
\* invocation's plugin name, the scan root, the file path, the current instant
\* and the resolved commit for those it left out; message and severity stay.
C24_BackfillOnlyOmitted ==
    [][pc = "running" /\ ~Outcome.threw =>
          /\ Len(ctxFindings') = Len(ctxFindings) + Len(Pushed)
          /\ \A i \in 1..Len(ctxFindings) : ctxFindings'[i] = ctxFindings[i]
          /\ \A j \in 1..Len(Pushed) :
                 LET entry == ctxFindings'[Len(ctxFindings) + j]
                     given == Pushed[j]
                 IN  /\ entry.plugin = IF given.plugin # "" THEN given.plugin
                                       ELSE CurrentPlugin.definition.name
                     /\ entry.project = IF given.project # <<>> THEN given.project
                                        ELSE config.rootDir
                     /\ entry.file = IF given.file # <<>> THEN given.file ELSE CurrentFile
                     /\ entry.timestamp = IF given.timestamp # "" THEN given.timestamp
                                          ELSE Instant
                     /\ entry.commit = IF given.commit # "" THEN given.commit ELSE HeadCommit
                     /\ entry.message = given.message
                     /\ entry.severity = given.severity]_vars

\* After a run returned: the file's findings hold an entry of an earlier,
\* failed run that still lacks its plugin name, then an entry that got all
\* five defaults and an entry that kept its own plugin label and instant.
C24_Witness ==
    /\ pc = "refs"
    /\ log # <<>> /\ log[Len(log)].kind = "settle" /\ log[Len(log)].ok
    /\ \E i, j, k \in 1..Len(ctxFindings) :
          /\ i <= findingStart /\ findingStart < j /\ j < k
          /\ ctxFindings[i].plugin = "" /\ ctxFindings[i].file = <<>>
          /\ ctxFindings[j].plugin = barePlugin.name /\ ctxFindings[j].file = CurrentFile
          /\ ctxFindings[j].timestamp = Instant /\ ctxFindings[j].commit = HeadCommit
          /\ ctxFindings[k].plugin = "custom-label" /\ ctxFindings[k].timestamp = "earlier"
          /\ ctxFindings[k].project = config.rootDir

-----------------------------------------------------------------------------
(* Which references are invoked.                                           *)

\* The invocations of reference k of rule r on file i in the current scan.
Invocations(i, r, k) ==
    {n \in EventsOf("invoke") : log[n].file = i /\ log[n].rule = r /\ log[n].ref = k}

\* The references of the configuration, as (rule, position) pairs.
References ==
    UNION {{<<r, k>> : k \in 1..Len(config.rules[r].plugins)} : r \in 1..Len(config.rules)}

\* The names that the references carry.
ReferencedNames == {config.rules[rk[1]].plugins[rk[2]].name : rk \in References}

\* C25: in a finished scan, a reference of a rule is invoked exactly once on a
\* file that was read if the rule's matcher accepted the path in scanFile, the
\* name is in the registry and the plugin's own test (if declared) accepts the
\* path, and otherwise not at all; on a file whose read failed nothing is
\* invoked. So a plugin is invoked on a file as often as applicable rules
\* reference it, and never on a path its own test rejects. For rules whose
\* tests carry no g or y flag the matcher's answer is that of the pattern.
C25_InvocationCondition ==
    Returned =>
        \A i \in 1..Len(files) :
            /\ \A rk \in References :
                   Cardinality(Invocations(i, rk[1], rk[2])) =
                       IF /\ i \in ReadOk
                          /\ WasAccepted(i, rk[1])
                          /\ Runnable(i, rk[1], rk[2])
                       THEN 1 ELSE 0
            /\ \A name \in ReferencedNames :
                   LET named(rk) == config.rules[rk[1]].plugins[rk[2]].name = name
                       definition == resolvePluginReference(pluginRegistry, Ref(name)).definition
                   IN  /\ Cardinality({n \in EventsOf("invoke") :
                                          /\ log[n].file = i
                                          /\ named(<<log[n].rule, log[n].ref>>)})
                          = Cardinality({rk \in References :
                                          /\ named(rk) /\ i \in ReadOk
                                          /\ WasAccepted(i, rk[1])
                                          /\ Runnable(i, rk[1], rk[2])})
                       /\ definition.test.defined
                          /\ ~RegExpTest(definition.test, 0, files[i]).matched
                          => \A rk \in References : named(rk) => ~WasInvoked(i, rk[1], rk[2])
            /\ StatelessTests /\ i \in ReadOk =>
                   \A r \in 1..Len(config.rules) :
                       WasAccepted(i, r) <=> PatternAccepts(config.rules[r].test, files[i])

\* A finished scan in which one plugin ran twice on a file that two rules
\* accept, a reference without registry entry was passed over in an applied
\* rule, and a registered plugin was not run on a file of an applied rule
\* because its own test rejects the path.
C25_Witness ==
    /\ Returned
    /\ \E i \in 1..Len(files) : \E a, b \in References :
          /\ a # b
          /\ config.rules[a[1]].plugins[a[2]].name = config.rules[b[1]].plugins[b[2]].name
          /\ WasInvoked(i, a[1], a[2]) /\ WasInvoked(i, b[1], b[2])
    /\ \E i \in ReadOk : \E rk \in References :
          /\ WasAccepted(i, rk[1])
          /\ config.rules[rk[1]].plugins[rk[2]].name \notin DOMAIN pluginRegistry
    /\ \E i \in ReadOk : \E rk \in References :
          /\ WasAccepted(i, rk[1])
          /\ config.rules[rk[1]].plugins[rk[2]].name \in DOMAIN pluginRegistry
          /\ ~Runnable(i, rk[1], rk[2])

-----------------------------------------------------------------------------
(* The accumulators a plugin sees.                                         *)

\* The invocations of this scan on the file being scanned that came before
\* the one in progress (which is the last event of the log).
EarlierOnFile ==
    {n \in EventsOf("invoke") : n < Len(log) /\ log[n].file = fileIdx}

\* The entry was appended by one of those invocations.
FromEarlierOnFile(entry) ==
    \E n \in EarlierOnFile : entry.origin = <<log[n].file, log[n].rule, log[n].ref>>

\* C26: when a plugin is invoked on a file, the findings and component records
\* in its context are entries appended by earlier invocations on that file in
\* the same scan, and the findings are all of those; both sequences are empty
\* when the file's first plugin starts. Nothing of another file or of an
\* earlier scan of the engine is in them.
C26_AccumulatorIsolation ==
    pc = "running" =>
        /\ \A j \in 1..Len(ctxFindings) : FromEarlierOnFile(ctxFindings[j])
        /\ \A j \in 1..Len(ctxComponents) : FromEarlierOnFile(ctxComponents[j])
        /\ Len(ctxFindings) =
              Cardinality(UNION {{<<n, j>> : j \in 1..Len(AppendedBy(n).findings)} :
                                 n \in EarlierOnFile})
        /\ EarlierOnFile = {} => ctxFindings = <<>> /\ ctxComponents = <<>>

\* The first plugin of a later file starts in the second scan of an engine:
\* the first scan returned findings, this scan has collected findings and
\* component records of an earlier file, and the context is empty.
C26_Witness ==
    /\ pc = "running"
    /\ Len(reports) = 1 /\ reports[1].findings # <<>>
    /\ fileIdx >= 2
    /\ findings # <<>> /\ components # <<>>
    /\ EarlierOnFile = {}
    /\ ctxFindings = <<>> /\ ctxComponents = <<>>

-----------------------------------------------------------------------------
(* Selection against execution.                                            *)

\* C27: for the rule tests normalizeRules produces, flags g and y included,
\* every file that findFiles returned is accepted again by at least one rule
\* when scanFile has evaluated the rules on it, and every answer a rule's
\* matcher gives in scanFile is the answer of its pattern on the path, the
\* same whenever it is evaluated.
C27_StatelessMatching ==
    /\ pc = "rules" /\ ruleIdx > Len(config.rules) =>
           \E r \in 1..Len(config.rules) : WasAccepted(fileIdx, r)
    /\ \A n \in EventsOf("match") :
           log[n].ok = PatternAccepts(config.rules[log[n].rule].test, files[log[n].file])

-----------------------------------------------------------------------------
(* ensurePlugins against what is registered.                               *)

\* C28: ensurePlugins never replaces an entry of the registry: every step that
\* runs it leaves each entry that was there as it was (a plugin registered by
\* hand under a name stays the definition of that name), and running it once
\* more with the same names, repeated or not, changes nothing.
C28_EnsureKeepsEntries ==
    /\ [][pc' = "selecting" =>
             \A n \in DOMAIN pluginRegistry :
                 n \in DOMAIN pluginRegistry' /\ pluginRegistry'[n] = pluginRegistry[n]]_vars
    /\ [](Ensured =>
             /\ ensurePlugins(pluginRegistry, Dedupe(PluginNames(config.rules, 1)), 1)
                = pluginRegistry
             /\ ensurePlugins(pluginRegistry, PluginNames(config.rules, 1), 1)
                = pluginRegistry)

-----------------------------------------------------------------------------
(* The hand-off to the loader.                                             *)

\* C29: every report that scan returns, with or without findings, is accepted
\* by the loader's validateReport.
C29_LoaderAcceptsReports ==
    \A n \in 1..Len(reports) : validateReport(reports[n])

-----------------------------------------------------------------------------
(* The loader's batches.                                                   *)

RECURSIVE Concat(_)
Concat(seqs) == IF seqs = <<>> THEN <<>> ELSE Head(seqs) \o Concat(Tail(seqs))

\* C30: for every findings sequence and every configured batchSize the loop
\* of loadFindings ends, having passed every finding to loadFindingsBatch
\* once, in order, in batches of at most the effective batch size
\* (config.batchSize, or 1000 when it is unset or 0); empty findings cause no
\* call. Every turn of the loop passes the next findings, at least one and at
\* most the effective batch size, and moves i forward (so the turns end), and
\* when the call returns the batches put together are the findings.
C30_LoadFindingsBatches ==
    /\ [][loader.at = "loop" /\ loader'.at = "loop" =>
             /\ loader'.i > loader.i
             /\ Len(loader'.batches) = Len(loader.batches) + 1
             /\ LET batch == loader'.batches[Len(loader'.batches)]
                IN  /\ batch # <<>>
                    /\ Len(batch) <= EffectiveBatchSize(loader)
                    /\ Concat(loader'.batches)
                       = SubSeq(loader.findings, 1, Len(Concat(loader'.batches)))]_vars
    /\ [](/\ loader.at = "loop" /\ loader.i < Len(loader.findings) => ENABLED LoadFindingsBatch
          /\ loader.at = "returned" =>
                /\ Concat(loader.batches) = loader.findings
                /\ loader.findings = <<>> => loader.batches = <<>>)

====
